---- MODULE Spec2Model ----
(***************************************************************************)
(* FantasyEdge: projections from betting lines, the lineup optimizer and   *)
(* the DFS optimizer.                                                      *)
(*                                                                         *)
(* Three specifications share this module, one per component:              *)
(*   SpecProjection  FantasyEdgeAnalyzer._generate_fantasy_projection      *)
(*   SpecLineup      FantasyEdgeAnalyzer.optimize_lineup                   *)
(*   SpecDFS         FantasyTools.optimize_dfs_lineup / _build_dfs_lineup  *)
(* Each leaves the variables of the other components at their initial      *)
(* values.                                                                 *)
(*                                                                         *)
(* Numbers.  Python floats are modelled as exact rationals <<n, d>> with   *)
(* d > 0 and gcd(n, d) = 1 (rounding is not modelled).  Optional values    *)
(* are sequences of length at most one: None is <<>>, a present value x    *)
(* is <<x>>.  A dict is a function; the order of its keys, where the code  *)
(* depends on it, is kept in a separate sequence.                          *)
(***************************************************************************)
EXTENDS Integers, Sequences, FiniteSets, TLC

VARIABLES
    \* ---- FantasyEdgeAnalyzer._generate_fantasy_projection ----
    scoring,              \* self.scoring
    position,             \* argument: Optional[Position]
    betting_lines,        \* argument: List[BettingLine]
    consensus_lines,      \* local: Dict[str, float]
    fantasy_projection,   \* return value: Optional[FantasyProjection]
    proj_pc,              \* "idle" | "returned"
    \* ---- what get_player_analysis answers for each player name ----
    analysis_of,
    \* ---- FantasyEdgeAnalyzer.optimize_lineup ----
    roster_players,       \* argument: List[str]
    roster_requirements,  \* lineup_requirements after the default is applied
    roster_by_position,   \* local players_by_position, each list sorted
    optimal_lineup,       \* result['optimal_lineup']
    bench_players,        \* result['bench_players']
    total_projected_points,  \* result['total_projected_points']
    lineup_pc,            \* "idle" | "returned"
    \* ---- FantasyTools.optimize_dfs_lineup / _build_dfs_lineup ----
    player_pool,          \* argument: List[str]
    constraints,          \* argument: DFSConstraints
    lineup_requirements,  \* the requirement items in dict order, default applied
    players_by_position,  \* Dict[Position, List[Dict]], each list sorted
    lineup,               \* local lineup: Dict[Position, List[Dict]]
    total_salary,
    total_points,
    team_counts,
    must_index,           \* position of the must-include loop in the list
    fill_index,           \* position of the fill loop in the requirement items
    candidates,           \* what is left of the slice the fill loop iterates
    dfs_result,           \* return value of optimize_dfs_lineup
    dfs_pc,               \* "idle" | "must" | "fill" | "try" | "done"
    \* ---- FantasyEdgeAnalyzer.compare_players ----
    player1_name,         \* argument
    player2_name,         \* argument
    comparison,           \* return value (or that the call raised)
    compare_pc,           \* "idle" | "returned"
    \* ---- FantasyTools.analyze_trade ----
    give_players,         \* argument: List[str]
    receive_players,      \* argument: List[str]
    league_type,          \* argument: LeagueType
    trade_proposal,       \* return value: TradeProposal
    reverse_proposal,     \* return value of the call with the two lists swapped
    trade_pc,             \* "idle" | "returned" | "reversed"
    \* ---- FantasyTools.get_waiver_targets ----
    available_players,    \* argument: List[str]
    roster_needs,         \* argument: List[Position]
    max_ownership,        \* argument: float
    targets,              \* local targets, the return value once sorted
    waiver_index,         \* position of the loop in available_players
    waiver_pc,            \* "idle" | "loop" | "returned"
    \* ---- FantasyTools.get_breakout_candidates ----
    breakout_pool,        \* argument player_pool: List[str]
    min_confidence,       \* argument: float
    breakout_candidates,  \* local breakout_candidates, the return value once sorted
    breakout_index,       \* position of the loop in player_pool
    breakout_pc,          \* "idle" | "loop" | "returned"
    \* ---- one FantasyEdgeAnalyzer and The Odds API it talks to ----
    api_key,              \* self.api_key
    odds_api,             \* what the API would answer: games, props, status codes
    cache,                \* self._cache: key -> (time.time(), data)
    now,                  \* time.time(), in seconds
    requests_sent,        \* calls of self.session.get so far
    returned              \* what the calls of get_player_analysis returned, in order

projVars == <<scoring, position, betting_lines, consensus_lines,
              fantasy_projection, proj_pc>>

lineupVars == <<roster_players, roster_requirements, roster_by_position,
                optimal_lineup, bench_players, total_projected_points, lineup_pc>>

dfsVars == <<player_pool, constraints, lineup_requirements, players_by_position,
             lineup, total_salary, total_points, team_counts, must_index,
             fill_index, candidates, dfs_result, dfs_pc>>

compareVars == <<player1_name, player2_name, comparison, compare_pc>>

tradeVars == <<give_players, receive_players, league_type, trade_proposal,
               reverse_proposal, trade_pc>>

waiverVars == <<available_players, roster_needs, max_ownership, targets,
                waiver_index, waiver_pc>>

breakoutVars == <<breakout_pool, min_confidence, breakout_candidates,
                  breakout_index, breakout_pc>>

\* the variables of the components built on the projections
toolVars == <<compareVars, tradeVars, waiverVars, breakoutVars>>

sessionVars == <<api_key, odds_api, cache, now, requests_sent, returned>>

vars == <<projVars, analysis_of, lineupVars, dfsVars, toolVars, sessionVars>>

-----------------------------------------------------------------------------
(* Optional values *)

None == <<>>

Some(x) == <<x>>

IsSome(o) == Len(o) = 1

Get(o) == o[1]

-----------------------------------------------------------------------------
(* Exact rational arithmetic standing for Python's float arithmetic *)

Abs(n) == IF n < 0 THEN -n ELSE n

RECURSIVE GCD(_, _)
GCD(a, b) == IF b = 0 THEN a ELSE GCD(b, a % b)

Norm(n, d) ==
    LET g == GCD(Abs(n), d)
    IN  IF n = 0 THEN <<0, 1>> ELSE <<n \div g, d \div g>>

R(n, d) == Norm(n, d)

Zero == <<0, 1>>

RAdd(x, y) == Norm(x[1] * y[2] + y[1] * x[2], x[2] * y[2])

RMul(x, y) == Norm(x[1] * y[1], x[2] * y[2])

\* x / y for y # 0 (a zero divisor raises ZeroDivisionError in Python; no
\* scoring rule of the model has one)
RDiv(x, y) ==
    IF y[1] > 0 THEN Norm(x[1] * y[2], x[2] * y[1])
    ELSE Norm(-(x[1] * y[2]), x[2] * (-y[1]))

RLt(x, y) == x[1] * y[2] < y[1] * x[2]

RLe(x, y) == x[1] * y[2] <= y[1] * x[2]

RECURSIVE RSum(_)
RSum(s) == IF s = <<>> THEN Zero ELSE RAdd(RSum(SubSeq(s, 1, Len(s) - 1)), s[Len(s)])

-----------------------------------------------------------------------------
(* Positions, prop markets, scoring rules *)

Positions == {"QB", "RB", "WR", "TE", "K", "DST"}

PASS_TDS == "player_pass_tds"
PASS_YARDS == "player_pass_yds"
RUSH_YARDS == "player_rush_yds"
RUSH_TDS == "player_rush_tds"
RECEPTIONS == "player_receptions"
RECEIVING_YARDS == "player_reception_yds"
RECEIVING_TDS == "player_reception_tds"
ANYTIME_TD == "player_anytime_td"

\* FantasyScoring(): the dataclass defaults (full PPR)
FantasyScoring ==
    [pass_yards_per_point |-> R(25, 1),
     pass_td_points |-> R(4, 1),
     rush_yards_per_point |-> R(10, 1),
     rush_td_points |-> R(6, 1),
     reception_points |-> R(1, 1),
     receiving_yards_per_point |-> R(10, 1),
     receiving_td_points |-> R(6, 1)]

\* the half-PPR preset
HalfPPRScoring == [FantasyScoring EXCEPT !.reception_points = R(1, 2)]

\* the scoring rules a caller may install with set_scoring
ScoringRules == {FantasyScoring, HalfPPRScoring}

-----------------------------------------------------------------------------
(* FantasyEdgeAnalyzer._get_consensus_lines *)

\* the line values of the quotes of one prop type, in list order
LinesOf(lines, prop) ==
    LET F[i \in 0..Len(lines)] ==
            IF i = 0 THEN <<>>
            ELSE IF lines[i].prop_type = prop THEN Append(F[i - 1], lines[i].line)
                 ELSE F[i - 1]
    IN  F[Len(lines)]

\* mutant: each sum is divided by the number of all the quotes of the call
GetConsensusLines_OverAllQuotes(lines) ==
    [prop \in {lines[i].prop_type : i \in 1..Len(lines)} |->
        RDiv(RSum(LinesOf(lines, prop)), R(Len(lines), 1))]

\* prop_groups[prop].append(line.line), then sum(lines) / len(lines) per group
GetConsensusLines(lines) ==
    [prop \in {lines[i].prop_type : i \in 1..Len(lines)} |->
        RDiv(RSum(LinesOf(lines, prop)), R(Len(LinesOf(lines, prop)), 1))]

-----------------------------------------------------------------------------
(* FantasyEdgeAnalyzer._project_*_points *)

\* (points, breakdown, confidence_scores) before the first category
NoPoints == [points |-> Zero, breakdown |-> [k \in {} |-> Zero], confidence_scores |-> <<>>]

\* breakdown[key] = value
Put(d, key, value) == [k \in DOMAIN d \cup {key} |-> IF k = key THEN value ELSE d[k]]

\* mutant: the yards are multiplied by the yards-per-point value
YardsBlock_Multiplied(acc, consensus, prop, key, divisor, conf) ==
    IF prop \in DOMAIN consensus
    THEN LET pts == RMul(consensus[prop], divisor)
         IN  [points |-> RAdd(acc.points, pts),
              breakdown |-> Put(acc.breakdown, key, pts),
              confidence_scores |-> Append(acc.confidence_scores, conf)]
    ELSE acc

\* one "if PropType.X.value in consensus_lines:" block whose points are
\* line / divisor
YardsBlock(acc, consensus, prop, key, divisor, conf) ==
    IF prop \in DOMAIN consensus
    THEN LET pts == RDiv(consensus[prop], divisor)
         IN  [points |-> RAdd(acc.points, pts),
              breakdown |-> Put(acc.breakdown, key, pts),
              confidence_scores |-> Append(acc.confidence_scores, conf)]
    ELSE acc

\* one "if PropType.X.value in consensus_lines:" block whose points are
\* line * factor
CountBlock(acc, consensus, prop, key, factor, conf) ==
    IF prop \in DOMAIN consensus
    THEN LET pts == RMul(consensus[prop], factor)
         IN  [points |-> RAdd(acc.points, pts),
              breakdown |-> Put(acc.breakdown, key, pts),
              confidence_scores |-> Append(acc.confidence_scores, conf)]
    ELSE acc

ProjectQbPoints(consensus, s) ==
    LET a1 == YardsBlock(NoPoints, consensus, PASS_YARDS, "passing_yards",
                         s.pass_yards_per_point, R(8, 10))
        a2 == CountBlock(a1, consensus, PASS_TDS, "passing_tds",
                         s.pass_td_points, R(7, 10))
        a3 == YardsBlock(a2, consensus, RUSH_YARDS, "rushing_yards",
                         s.rush_yards_per_point, R(6, 10))
        a4 == CountBlock(a3, consensus, RUSH_TDS, "rushing_tds",
                         s.rush_td_points, R(5, 10))
    IN  a4

ProjectRbPoints(consensus, s) ==
    LET a1 == YardsBlock(NoPoints, consensus, RUSH_YARDS, "rushing_yards",
                         s.rush_yards_per_point, R(8, 10))
        a2 == CountBlock(a1, consensus, RUSH_TDS, "rushing_tds",
                         s.rush_td_points, R(6, 10))
        a3 == CountBlock(a2, consensus, RECEPTIONS, "receptions",
                         s.reception_points, R(7, 10))
        a4 == YardsBlock(a3, consensus, RECEIVING_YARDS, "receiving_yards",
                         s.receiving_yards_per_point, R(7, 10))
    IN  a4

ProjectWrPoints(consensus, s) ==
    LET a1 == CountBlock(NoPoints, consensus, RECEPTIONS, "receptions",
                         s.reception_points, R(8, 10))
        a2 == YardsBlock(a1, consensus, RECEIVING_YARDS, "receiving_yards",
                         s.receiving_yards_per_point, R(8, 10))
        a3 == CountBlock(a2, consensus, RECEIVING_TDS, "receiving_tds",
                         s.receiving_td_points, R(6, 10))
    IN  a3

ProjectTePoints(consensus, s) == ProjectWrPoints(consensus, s)

-----------------------------------------------------------------------------
(* FantasyEdgeAnalyzer._generate_fantasy_projection *)

\* the position dispatch: a position without a branch keeps the initial
\* (0.0, {}, [])
ProjectByPosition(pos, consensus, s) ==
    IF pos = "QB" THEN ProjectQbPoints(consensus, s)
    ELSE IF pos = "RB" THEN ProjectRbPoints(consensus, s)
    ELSE IF pos = "WR" THEN ProjectWrPoints(consensus, s)
    ELSE IF pos = "TE" THEN ProjectTePoints(consensus, s)
    ELSE NoPoints

\* mutant: the weights are summed and not averaged
OverallConfidence_NotAveraged(confidence_scores) ==
    IF confidence_scores # <<>> THEN RSum(confidence_scores) ELSE R(1, 2)

\* sum(confidence_scores) / len(confidence_scores) if confidence_scores else 0.5
OverallConfidence(confidence_scores) ==
    IF confidence_scores # <<>>
    THEN RDiv(RSum(confidence_scores), R(Len(confidence_scores), 1))
    ELSE R(1, 2)

\* pos is an Optional[Position]
GenerateFantasyProjection(pos, lines, s) ==
    IF lines = <<>> \/ ~IsSome(pos) THEN None
    ELSE LET p == ProjectByPosition(Get(pos), GetConsensusLines(lines), s)
         IN  Some([position |-> Get(pos),
                   projected_points |-> p.points,
                   confidence |-> OverallConfidence(p.confidence_scores),
                   breakdown |-> p.breakdown])

-----------------------------------------------------------------------------
(* Bounds and inputs of SpecProjection *)

\* most quotes in one call
MaxLines == 2

\* the prop markets quoted: every market of the category tables and one
\* market no table has
QuotedMarkets ==
    {PASS_YARDS, PASS_TDS, RUSH_YARDS, RUSH_TDS, RECEPTIONS, RECEIVING_YARDS,
     RECEIVING_TDS, ANYTIME_TD}

\* the line values quoted
QuotedLines == {R(1, 2), R(70, 1)}

BettingLine == [prop_type : QuotedMarkets, line : QuotedLines]

RECURSIVE SeqsUpTo(_, _)
SeqsUpTo(S, n) ==
    IF n = 0 THEN {<<>>}
    ELSE LET shorter == SeqsUpTo(S, n - 1)
         IN  shorter \cup {Append(q, x) : q \in {r \in shorter : Len(r) = n - 1}, x \in S}

OptionalPositions == {None} \cup {Some(p) : p \in Positions}

-----------------------------------------------------------------------------
(* SpecProjection *)

ProjectionIdle ==
    /\ scoring = FantasyScoring
    /\ position = None
    /\ betting_lines = <<>>
    /\ consensus_lines = [k \in {} |-> Zero]
    /\ fantasy_projection = None
    /\ proj_pc = "idle"

NoAnalyses == analysis_of = [n \in {} |-> None]

LineupIdle ==
    /\ roster_players = <<>>
    /\ roster_requirements = [p \in {} |-> 0]
    /\ roster_by_position = [p \in {} |-> <<>>]
    /\ optimal_lineup = [p \in {} |-> <<>>]
    /\ bench_players = [p \in {} |-> <<>>]
    /\ total_projected_points = Zero
    /\ lineup_pc = "idle"

DFSIdle ==
    /\ player_pool = <<>>
    /\ constraints = [salary_cap |-> 50000, max_players_per_team |-> 4,
                      banned_players |-> None, must_include |-> None]
    /\ lineup_requirements = <<>>
    /\ players_by_position = [p \in {} |-> <<>>]
    /\ lineup = [p \in {} |-> <<>>]
    /\ total_salary = 0
    /\ total_points = Zero
    /\ team_counts = [t \in {} |-> 0]
    /\ must_index = 1
    /\ fill_index = 1
    /\ candidates = <<>>
    /\ dfs_result = None
    /\ dfs_pc = "idle"

CompareIdle ==
    /\ player1_name = ""
    /\ player2_name = ""
    /\ comparison = None
    /\ compare_pc = "idle"

TradeIdle ==
    /\ give_players = <<>>
    /\ receive_players = <<>>
    /\ league_type = "redraft"
    /\ trade_proposal = None
    /\ reverse_proposal = None
    /\ trade_pc = "idle"

WaiverIdle ==
    /\ available_players = <<>>
    /\ roster_needs = <<>>
    /\ max_ownership = R(50, 1)
    /\ targets = <<>>
    /\ waiver_index = 1
    /\ waiver_pc = "idle"

BreakoutIdle ==
    /\ breakout_pool = <<>>
    /\ min_confidence = R(6, 10)
    /\ breakout_candidates = <<>>
    /\ breakout_index = 1
    /\ breakout_pc = "idle"

ToolsIdle == CompareIdle /\ TradeIdle /\ WaiverIdle /\ BreakoutIdle

\* an API that lists no game
NoOddsApi ==
    [games |-> <<>>, props |-> [e \in {} |-> <<>>], events_status |-> 200,
     odds_status |-> 200, retry_status |-> 200, odds_body |-> "json"]

\* no analyzer of its own in the specification: analysis_of stands for it
SessionIdle ==
    /\ api_key = None
    /\ odds_api = NoOddsApi
    /\ cache = [k \in {} |-> <<>>]
    /\ now = 0
    /\ requests_sent = 0
    /\ returned = <<>>

InitProjection ==
    ProjectionIdle /\ NoAnalyses /\ LineupIdle /\ DFSIdle /\ ToolsIdle /\ SessionIdle

\* FantasyEdgeAnalyzer.set_scoring, called before the projection under study
SetScoring ==
    /\ proj_pc = "idle"
    /\ \E s \in ScoringRules :
        /\ scoring' = s
        /\ UNCHANGED <<position, betting_lines, consensus_lines,
                       fantasy_projection, proj_pc, analysis_of, sessionVars, toolVars, lineupVars, dfsVars>>

\* one call of _generate_fantasy_projection
GenerateProjection ==
    /\ proj_pc = "idle"
    /\ \E pos \in OptionalPositions, lines \in SeqsUpTo(BettingLine, MaxLines) :
        /\ position' = pos
        /\ betting_lines' = lines
        /\ consensus_lines' = IF lines = <<>> \/ ~IsSome(pos)
                              THEN [k \in {} |-> Zero]
                              ELSE GetConsensusLines(lines)
        /\ fantasy_projection' = GenerateFantasyProjection(pos, lines, scoring)
        /\ proj_pc' = "returned"
        /\ UNCHANGED <<scoring, analysis_of, sessionVars, toolVars, lineupVars, dfsVars>>

NextProjection == SetScoring \/ GenerateProjection

SpecProjection == InitProjection /\ [][NextProjection]_vars

-----------------------------------------------------------------------------
(* The category table of the projection engine as the specification states *)
(* it: market type, breakdown category, points formula, confidence weight  *)

Row(market, key, kind, field, weight) ==
    [market |-> market, key |-> key, kind |-> kind, field |-> field, weight |-> weight]

ReceiverTable ==
    {Row(RECEPTIONS, "receptions", "times", "reception_points", R(8, 10)),
     Row(RECEIVING_YARDS, "receiving_yards", "per", "receiving_yards_per_point", R(8, 10)),
     Row(RECEIVING_TDS, "receiving_tds", "times", "receiving_td_points", R(6, 10))}

CategoryTable(pos) ==
    CASE pos = "QB" ->
           {Row(PASS_YARDS, "passing_yards", "per", "pass_yards_per_point", R(8, 10)),
            Row(PASS_TDS, "passing_tds", "times", "pass_td_points", R(7, 10)),
            Row(RUSH_YARDS, "rushing_yards", "per", "rush_yards_per_point", R(6, 10)),
            Row(RUSH_TDS, "rushing_tds", "times", "rush_td_points", R(5, 10))}
      [] pos = "RB" ->
           {Row(RUSH_YARDS, "rushing_yards", "per", "rush_yards_per_point", R(8, 10)),
            Row(RUSH_TDS, "rushing_tds", "times", "rush_td_points", R(6, 10)),
            Row(RECEPTIONS, "receptions", "times", "reception_points", R(7, 10)),
            Row(RECEIVING_YARDS, "receiving_yards", "per", "receiving_yards_per_point", R(7, 10))}
      [] pos \in {"WR", "TE"} -> ReceiverTable
      [] OTHER -> {}

\* the markets quoted in the call's lines
MarketsQuoted == {betting_lines[i].prop_type : i \in 1..Len(betting_lines)}

\* the rows of the position's table whose market is quoted
PresentRows ==
    IF IsSome(position)
    THEN {r \in CategoryTable(Get(position)) : r.market \in MarketsQuoted}
    ELSE {}

\* a row's contribution under the rule in force
RowPoints(r) ==
    IF r.kind = "per" THEN RDiv(consensus_lines[r.market], scoring[r.field])
    ELSE RMul(consensus_lines[r.market], scoring[r.field])

RECURSIVE SumOver(_, _)
SumOver(S, f) ==
    IF S = {} THEN Zero
    ELSE LET x == CHOOSE y \in S : TRUE
         IN  RAdd(f[x], SumOver(S \ {x}, f))

ProjectionReturned == proj_pc = "returned" /\ IsSome(fantasy_projection)

\* C7: the projection is absent whenever the position is unknown or there
\* are no lines, and also whenever no quoted market belongs to the
\* position's category table (no zero-point projection out of missing data).
C7_NoProjectionWithoutData ==
    proj_pc = "returned" =>
        /\ (position = None \/ betting_lines = <<>>) => fantasy_projection = None
        /\ PresentRows = {} => fantasy_projection = None

\* C8: for K and DST the projection is absent whatever the lines are.
C8_KickerAndDefenseAbsent ==
    (proj_pc = "returned" /\ position \in {Some("K"), Some("DST")}) =>
        fantasy_projection = None

\* C9: for QB, RB, WR and TE the breakdown has exactly one entry per present
\* row of the position's table, holding the row's formula applied to the
\* consensus line, and the projected points are the sum of those entries.
C9_PointsAreSumOfPresentRows ==
    (ProjectionReturned /\ Get(position) \in {"QB", "RB", "WR", "TE"}) =>
        LET p == Get(fantasy_projection)
            contribution == [r \in PresentRows |-> RowPoints(r)]
        IN  /\ DOMAIN p.breakdown = {r.key : r \in PresentRows}
            /\ \A r \in PresentRows : p.breakdown[r.key] = contribution[r]
            /\ p.projected_points = SumOver(PresentRows, contribution)
            /\ p.projected_points = SumOver(DOMAIN p.breakdown, p.breakdown)

\* a tight end with two quoted categories of the receiver table
C9_Witness ==
    /\ ProjectionReturned
    /\ position = Some("TE")
    /\ Cardinality(PresentRows) = 2
    /\ Get(fantasy_projection).projected_points # Zero

\* C10: the confidence is the mean of the weights of the present rows, 0.5
\* when no row is present, and lies in [0, 1].
C10_ConfidenceIsMeanOfPresentWeights ==
    ProjectionReturned =>
        LET c == Get(fantasy_projection).confidence
            weight == [r \in PresentRows |-> r.weight]
        IN  /\ c = IF PresentRows = {} THEN R(1, 2)
                   ELSE RDiv(SumOver(PresentRows, weight), R(Cardinality(PresentRows), 1))
            /\ RLe(Zero, c) /\ RLe(c, R(1, 1))

\* a quarterback with passing yards (0.8) and passing touchdowns (0.7) quoted
C10_Witness ==
    /\ ProjectionReturned
    /\ position = Some("QB")
    /\ {r.market : r \in PresentRows} = {PASS_YARDS, PASS_TDS}
    /\ Get(fantasy_projection).confidence = R(3, 4)

\* the call went as far as computing the consensus map
ConsensusComputed == proj_pc = "returned" /\ IsSome(position) /\ betting_lines # <<>>

\* the quotes of one market, by their place in the list
QuotesOf(market) == {i \in 1..Len(betting_lines) : betting_lines[i].prop_type = market}

-----------------------------------------------------------------------------
(* What get_player_analysis returns (PlayerProps), or that it raises *)

Raises == [raises |-> TRUE, position |-> None, fantasy_projection |-> None,
           roster_info |-> None]

\* no position known or no lines found: no projection
Unprojected == [raises |-> FALSE, position |-> None, fantasy_projection |-> None,
                roster_info |-> None]

\* a player of position pos projected at pts points, with roster info info
PlayerProps(pos, pts, info) ==
    [raises |-> FALSE, position |-> Some(pos),
     fantasy_projection |-> Some([projected_points |-> pts]),
     roster_info |-> info]

Min(a, b) == IF a < b THEN a ELSE b

\* Python's s[:n] and s[n:] for n >= 0
Take_OneMore(s, n) == SubSeq(s, 1, Min(n + 1, Len(s)))

Take(s, n) == SubSeq(s, 1, Min(n, Len(s)))

Drop(s, n) == SubSeq(s, Min(n, Len(s)) + 1, Len(s))

\* the keys of a dict filled in the order of s: first occurrences
RECURSIVE Dedup(_)
Dedup(s) ==
    IF s = <<>> THEN <<>>
    ELSE LET front == Dedup(SubSeq(s, 1, Len(s) - 1))
             x == s[Len(s)]
         IN  IF \E i \in 1..Len(front) : front[i] = x THEN front ELSE Append(front, x)

\* mutant: a player goes before the players of equal points already placed
InsertDescending_BeforeEquals(sorted, x, pts) ==
    LET k == Cardinality({i \in 1..Len(sorted) : RLt(pts[x], pts[sorted[i]])})
    IN  SubSeq(sorted, 1, k) \o <<x>> \o SubSeq(sorted, k + 1, Len(sorted))

\* list.sort(key=..., reverse=True) is stable: x goes after every player
\* with at least its points
InsertDescending(sorted, x, pts) ==
    LET k == Cardinality({i \in 1..Len(sorted) : RLe(pts[x], pts[sorted[i]])})
    IN  SubSeq(sorted, 1, k) \o <<x>> \o SubSeq(sorted, k + 1, Len(sorted))

RECURSIVE SortDescending(_, _)
SortDescending(s, pts) ==
    IF s = <<>> THEN <<>>
    ELSE InsertDescending(SortDescending(SubSeq(s, 1, Len(s) - 1), pts), s[Len(s)], pts)

-----------------------------------------------------------------------------
(* FantasyEdgeAnalyzer.optimize_lineup *)

\* the default of optimize_lineup
DefaultLineupRequirements ==
    [p \in {"QB", "RB", "WR", "TE", "K"} |-> IF p \in {"RB", "WR"} THEN 2 ELSE 1]

\* "if not lineup_requirements": None and {} both take the default
LineupRequirementsOrDefault(reqs) ==
    IF DOMAIN reqs = {} THEN DefaultLineupRequirements ELSE reqs

\* the keys of player_analyses, in insertion order: the players whose
\* analysis did not raise and has a projection
ProjectedPlayers(roster, env) ==
    SelectSeq(Dedup(roster),
              LAMBDA n : ~env[n].raises /\ IsSome(env[n].fantasy_projection))

\* the sort key: projected points, 0 without a projection
ProjectedPoints(env) ==
    [n \in DOMAIN env |->
        IF IsSome(env[n].fantasy_projection)
        THEN Get(env[n].fantasy_projection).projected_points ELSE Zero]

\* players_by_position, each list in insertion order
GroupByPosition(keys, env) ==
    [pos \in {Get(env[keys[i]].position) : i \in 1..Len(keys)} |->
        SelectSeq(keys, LAMBDA n : Get(env[n].position) = pos)]

\* players_by_position after "Sort each position by projected points"
SortedByPosition(roster, env) ==
    LET grouped == GroupByPosition(ProjectedPlayers(roster, env), env)
    IN  [pos \in DOMAIN grouped |-> SortDescending(grouped[pos], ProjectedPoints(env))]

SelectStarters(byPos, reqs) ==
    [pos \in DOMAIN reqs \cap DOMAIN byPos |-> Take(byPos[pos], reqs[pos])]

BenchPlayers(byPos, reqs) ==
    [pos \in DOMAIN byPos \cap DOMAIN reqs |-> Drop(byPos[pos], reqs[pos])]

RECURSIVE PointsOfLineup(_, _)
PointsOfLineup(selected, pts) ==
    IF DOMAIN selected = {} THEN Zero
    ELSE LET pos == CHOOSE q \in DOMAIN selected : TRUE
             rest == [q \in DOMAIN selected \ {pos} |-> selected[q]]
         IN  RAdd(RSum([i \in 1..Len(selected[pos]) |-> pts[selected[pos][i]]]),
                  PointsOfLineup(rest, pts))

-----------------------------------------------------------------------------
(* Bounds and inputs of SpecLineup *)

\* longest roster list
MaxRoster == 3

\* most slots required at one position
MaxRequired == 2

RosterNames == {"a", "b", "c"}

RosterOutcomes ==
    {Raises, Unprojected}
        \cup {PlayerProps(pos, pts, None) : pos \in {"QB", "RB"}, pts \in {R(5, 1), R(12, 1)}}

\* the requirement maps tried: none (the default applies), running backs
\* only, one quarterback and running backs
RequirementMaps ==
    {[p \in {} |-> 0]}
        \cup {[p \in {"RB"} |-> n] : n \in 0..MaxRequired}
        \cup {[p \in {"QB", "RB"} |-> IF p = "QB" THEN 1 ELSE n] : n \in 0..MaxRequired}

-----------------------------------------------------------------------------
(* SpecLineup *)

InitLineup ==
    /\ ProjectionIdle
    /\ analysis_of \in [RosterNames -> RosterOutcomes]
    /\ LineupIdle
    /\ DFSIdle
    /\ ToolsIdle
    /\ SessionIdle

\* one call of optimize_lineup
OptimizeLineup ==
    /\ lineup_pc = "idle"
    /\ \E roster \in SeqsUpTo(RosterNames, MaxRoster), reqs \in RequirementMaps :
        LET required == LineupRequirementsOrDefault(reqs)
            byPos == SortedByPosition(roster, analysis_of)
            selected == SelectStarters(byPos, required)
        IN  /\ roster_players' = roster
            /\ roster_requirements' = required
            /\ roster_by_position' = byPos
            /\ optimal_lineup' = selected
            /\ bench_players' = BenchPlayers(byPos, required)
            /\ total_projected_points' = PointsOfLineup(selected, ProjectedPoints(analysis_of))
            /\ lineup_pc' = "returned"
            /\ UNCHANGED <<projVars, analysis_of, sessionVars, toolVars, dfsVars>>

NextLineup == OptimizeLineup

SpecLineup == InitLineup /\ [][NextLineup]_vars

-----------------------------------------------------------------------------
(* Claims about optimize_lineup *)

Range(s) == {s[i] : i \in 1..Len(s)}

\* the roster's players that have a projection at position pos
ProjectedAt(pos) ==
    {n \in Range(roster_players) :
        /\ ~analysis_of[n].raises
        /\ IsSome(analysis_of[n].fantasy_projection)
        /\ analysis_of[n].position = Some(pos)}

StartersAt(pos) == IF pos \in DOMAIN optimal_lineup THEN optimal_lineup[pos] ELSE <<>>

BenchAt(pos) == IF pos \in DOMAIN bench_players THEN bench_players[pos] ELSE <<>>

PointsOfPlayer(n) == Get(analysis_of[n].fantasy_projection).projected_points

FirstIndex(n) == CHOOSE i \in 1..Len(roster_players) :
                    /\ roster_players[i] = n
                    /\ \A j \in 1..(i - 1) : roster_players[j] # n

\* a is ranked before b: more points, or equal points and earlier in the roster
RankedBefore(a, b) ==
    \/ RLt(PointsOfPlayer(b), PointsOfPlayer(a))
    \/ PointsOfPlayer(a) = PointsOfPlayer(b) /\ FirstIndex(a) < FirstIndex(b)

\* C5: at each required position the starters are at most the requirement
\* and at least min(requirement, projected players at the position).
C5_StarterCountWithinRequirement ==
    lineup_pc = "returned" =>
        \A pos \in DOMAIN roster_requirements :
            /\ Len(StartersAt(pos)) <= roster_requirements[pos]
            /\ Len(StartersAt(pos)) >=
                   Min(roster_requirements[pos], Cardinality(ProjectedAt(pos)))

\* three projected running backs for two slots
C5_Witness ==
    /\ lineup_pc = "returned"
    /\ "RB" \in DOMAIN roster_requirements
    /\ roster_requirements["RB"] = 2
    /\ Cardinality(ProjectedAt("RB")) = 3
    /\ Len(StartersAt("RB")) = 2

\* C6: at each required position the starters are the first N projected
\* players in descending order of points, ties in roster order, and the
\* others are the bench: no benched player is ranked before a starter.
C6_StartersAreTopNStable ==
    lineup_pc = "returned" =>
        \A pos \in DOMAIN roster_requirements :
            LET st == StartersAt(pos)
                be == BenchAt(pos)
            IN  /\ Len(st) = Min(roster_requirements[pos], Cardinality(ProjectedAt(pos)))
                /\ Range(st) \cup Range(be) = ProjectedAt(pos)
                /\ Len(st) + Len(be) = Cardinality(ProjectedAt(pos))
                /\ \A i, j \in 1..Len(st) : i < j => RankedBefore(st[i], st[j])
                /\ \A x \in Range(st), y \in Range(be) : RankedBefore(x, y)

\* a starter and a benched player of equal points, the starter named later
\* in the alphabet but earlier in the roster
C6_Witness ==
    /\ lineup_pc = "returned"
    /\ StartersAt("RB") = <<"b">>
    /\ "a" \in Range(BenchAt("RB"))
    /\ PointsOfPlayer("a") = PointsOfPlayer("b")

-----------------------------------------------------------------------------
(* FantasyTools.optimize_dfs_lineup: the pool handed to _build_dfs_lineup *)

\* PlayerRosterInfo: the team and the optional DFS salary
RosterInfo(team, salary) == [team |-> team, salary |-> salary]

\* the default of optimize_dfs_lineup (DraftKings format), in dict order
DefaultDFSRequirements ==
    <<[position |-> "QB", count |-> 1], [position |-> "RB", count |-> 2],
      [position |-> "WR", count |-> 3], [position |-> "TE", count |-> 1],
      [position |-> "K", count |-> 1], [position |-> "DST", count |-> 1]>>

\* "if not lineup_requirements": None and {} both take the default
DFSRequirementsOrDefault(reqs) ==
    IF reqs = <<>> THEN DefaultDFSRequirements ELSE reqs

\* lineup_requirements.get(position, 0)
RequiredCount(reqs, pos) ==
    IF \E i \in 1..Len(reqs) : reqs[i].position = pos
    THEN reqs[CHOOSE i \in 1..Len(reqs) : reqs[i].position = pos].count
    ELSE 0

DefaultSalary == 5000

\* analysis.roster_info.salary or 5000
SalaryOrDefault(info) ==
    IF IsSome(info.salary) /\ Get(info.salary) # 0 THEN Get(info.salary) ELSE DefaultSalary

\* mutant: the dearest points rank first
PointsPerDollar_Negated(pts, salary) ==
    IF salary > 0 THEN RDiv(pts, RDiv(R(-salary, 1), R(1000, 1))) ELSE Zero

\* projected_points / (salary / 1000) if salary > 0 else 0
PointsPerDollar(pts, salary) ==
    IF salary > 0 THEN RDiv(pts, RDiv(R(salary, 1), R(1000, 1))) ELSE Zero

\* mutant: the banned players stay in the pool
AnalysedPool_KeepsBanned(pool, env, banned) ==
    SelectSeq(Dedup(pool),
              LAMBDA n : /\ ~env[n].raises
                         /\ IsSome(env[n].fantasy_projection)
                         /\ IsSome(env[n].roster_info))

\* mutant: the first analysis that raises ends the analysis loop
AnalysedPool_AbortsAtFailure(pool, env, banned) ==
    LET failed == {i \in 1..Len(pool) : env[pool[i]].raises}
        first == IF failed = {} THEN Len(pool) + 1
                 ELSE CHOOSE i \in failed : \A j \in failed : i <= j
    IN  SelectSeq(Dedup(SubSeq(pool, 1, first - 1)),
                  LAMBDA n : /\ IsSome(env[n].fantasy_projection)
                             /\ IsSome(env[n].roster_info)
                             /\ ~(IsSome(banned)
                                    /\ n \in {Get(banned)[i] : i \in 1..Len(Get(banned))}))

\* the keys of player_analyses after the analysis loop and the removal of the
\* banned players: analysed without raising, with a projection and roster info
AnalysedPool(pool, env, banned) ==
    SelectSeq(Dedup(pool),
              LAMBDA n : /\ ~env[n].raises
                         /\ IsSome(env[n].fantasy_projection)
                         /\ IsSome(env[n].roster_info)
                         /\ ~(IsSome(banned) /\ n \in {Get(banned)[i] : i \in 1..Len(Get(banned))}))

\* the dict appended to players_by_position for player n
PlayerEntry(n, env) ==
    [name |-> n,
     salary |-> SalaryOrDefault(Get(env[n].roster_info)),
     projected_points |-> Get(env[n].fantasy_projection).projected_points,
     team |-> Get(env[n].roster_info).team]

\* players_by_position: grouped in insertion order, then each list sorted by
\* points per dollar, descending
PoolByPosition(pool, env, banned) ==
    LET keys == AnalysedPool(pool, env, banned)
        grouped == GroupByPosition(keys, env)
        ppd == [n \in DOMAIN env |->
                   IF n \in {keys[i] : i \in 1..Len(keys)}
                   THEN PointsPerDollar(PlayerEntry(n, env).projected_points,
                                        PlayerEntry(n, env).salary)
                   ELSE Zero]
    IN  [pos \in DOMAIN grouped |->
            LET sorted == SortDescending(grouped[pos], ppd)
            IN  [i \in 1..Len(sorted) |-> PlayerEntry(sorted[i], env)]]

-----------------------------------------------------------------------------
(* FantasyTools._build_dfs_lineup *)

\* mutant: the must-include list is walked from its end
MustIncludeList_Reversed(c) ==
    IF IsSome(c.must_include)
    THEN [i \in 1..Len(Get(c.must_include)) |->
             Get(c.must_include)[Len(Get(c.must_include)) + 1 - i]]
    ELSE <<>>

\* the must-include list, [] when None
MustIncludeList(c) == IF IsSome(c.must_include) THEN Get(c.must_include) ELSE <<>>

\* the position whose list holds the player, if any
PositionHolding(byPos, name) ==
    {pos \in DOMAIN byPos : \E i \in 1..Len(byPos[pos]) : byPos[pos][i].name = name}

\* "if position not in lineup: lineup[position] = []"
WithKey(l, pos) == [q \in DOMAIN l \cup {pos} |-> IF q \in DOMAIN l THEN l[q] ELSE <<>>]

\* lineup[position].append(player)
Seated(l, pos, player) == [WithKey(l, pos) EXCEPT ![pos] = Append(@, player)]

\* mutant: the team's count is set to one, not raised by one
Counted_Overwrites(tc, team) ==
    [t \in DOMAIN tc \cup {team} |-> IF t = team THEN 1 ELSE tc[t]]

\* team_counts[team] = team_counts.get(team, 0) + 1
Counted(tc, team) ==
    [t \in DOMAIN tc \cup {team} |->
        IF t = team THEN (IF t \in DOMAIN tc THEN tc[t] ELSE 0) + 1 ELSE tc[t]]

\* team_counts.get(team, 0)
TeamCount(tc, team) == IF team \in DOMAIN tc THEN tc[team] ELSE 0

\* mutant: a seated must-include player stays among the candidates
Removed_Nothing(players, name) == players

\* players.remove(player)
Removed(players, name) == SelectSeq(players, LAMBDA q : q.name # name)

\* how many candidates the fill loop looks at for each slot still needed
ConsideredPerSlot == 3

\* the exit of the must-include loop after the element at must_index
AfterMustInclude ==
    /\ must_index' = must_index + 1
    /\ dfs_pc' = IF must_index + 1 > Len(MustIncludeList(constraints)) THEN "fill" ELSE "must"

\* the must-include player is found and its position has a free required slot
MustIncludeSeat ==
    /\ dfs_pc = "must"
    /\ LET name == MustIncludeList(constraints)[must_index]
           held == PositionHolding(players_by_position, name)
       IN  /\ held # {}
           /\ LET pos == CHOOSE q \in held : TRUE
                  player == CHOOSE q \in Range(players_by_position[pos]) : q.name = name
              IN  /\ Len(WithKey(lineup, pos)[pos]) < RequiredCount(lineup_requirements, pos)
                  /\ lineup' = Seated(lineup, pos, player)
                  /\ total_salary' = total_salary + player.salary
                  /\ total_points' = RAdd(total_points, player.projected_points)
                  /\ team_counts' = Counted(team_counts, player.team)
                  /\ players_by_position' =
                         [players_by_position EXCEPT ![pos] = Removed(@, name)]
    /\ AfterMustInclude
    /\ UNCHANGED <<player_pool, constraints, lineup_requirements, fill_index,
                   candidates, dfs_result, projVars, analysis_of, sessionVars, toolVars, lineupVars>>

\* the must-include player is not in the pool, or its position has no free
\* required slot: nothing is committed and nothing is reported
MustIncludePass ==
    /\ dfs_pc = "must"
    /\ LET name == MustIncludeList(constraints)[must_index]
           held == PositionHolding(players_by_position, name)
       IN  \/ /\ held = {}
              /\ lineup' = lineup
           \/ /\ held # {}
              /\ LET pos == CHOOSE q \in held : TRUE
                 IN  /\ Len(WithKey(lineup, pos)[pos]) >= RequiredCount(lineup_requirements, pos)
                     /\ lineup' = WithKey(lineup, pos)
    /\ AfterMustInclude
    /\ UNCHANGED <<player_pool, constraints, lineup_requirements, players_by_position,
                   total_salary, total_points, team_counts, fill_index, candidates,
                   dfs_result, projVars, analysis_of, sessionVars, toolVars, lineupVars>>

\* the head of "for position, required_count in lineup_requirements.items()":
\* the slice of candidates the inner loop will iterate
FillStart ==
    /\ dfs_pc = "fill"
    /\ fill_index <= Len(lineup_requirements)
    /\ LET pos == lineup_requirements[fill_index].position
           required_count == lineup_requirements[fill_index].count
           remaining_needed == required_count - Len(WithKey(lineup, pos)[pos])
           slice == IF remaining_needed > 0 /\ pos \in DOMAIN players_by_position
                    THEN Take(players_by_position[pos], remaining_needed * ConsideredPerSlot)
                    ELSE <<>>
       IN  /\ lineup' = WithKey(lineup, pos)
           /\ candidates' = slice
           /\ IF slice = <<>>
              THEN fill_index' = fill_index + 1 /\ dfs_pc' = "fill"
              ELSE fill_index' = fill_index /\ dfs_pc' = "try"
    /\ UNCHANGED <<player_pool, constraints, lineup_requirements, players_by_position,
                   total_salary, total_points, team_counts, must_index, dfs_result,
                   projVars, analysis_of, sessionVars, toolVars, lineupVars>>

\* the inner loop goes on to the next candidate, or ends when the slice is
\* used up or the position is full ("break")
AfterCandidate(full) ==
    IF Len(candidates) = 1 \/ full
    THEN candidates' = <<>> /\ fill_index' = fill_index + 1 /\ dfs_pc' = "fill"
    ELSE candidates' = Tail(candidates) /\ fill_index' = fill_index /\ dfs_pc' = "try"

\* "if total_salary + player['salary'] > constraints.salary_cap: continue"
SkipOverCap ==
    /\ dfs_pc = "try"
    /\ total_salary + candidates[1].salary > constraints.salary_cap
    /\ AfterCandidate(FALSE)
    /\ UNCHANGED <<player_pool, constraints, lineup_requirements, players_by_position,
                   lineup, total_salary, total_points, team_counts, must_index,
                   dfs_result, projVars, analysis_of, sessionVars, toolVars, lineupVars>>

\* "if team_counts.get(team, 0) >= constraints.max_players_per_team: continue"
SkipTeamFull ==
    /\ dfs_pc = "try"
    /\ total_salary + candidates[1].salary <= constraints.salary_cap
    /\ TeamCount(team_counts, candidates[1].team) >= constraints.max_players_per_team
    /\ AfterCandidate(FALSE)
    /\ UNCHANGED <<player_pool, constraints, lineup_requirements, players_by_position,
                   lineup, total_salary, total_points, team_counts, must_index,
                   dfs_result, projVars, analysis_of, sessionVars, toolVars, lineupVars>>

\* "Add player to lineup"
CommitCandidate ==
    /\ dfs_pc = "try"
    /\ total_salary + candidates[1].salary <= constraints.salary_cap
    /\ TeamCount(team_counts, candidates[1].team) < constraints.max_players_per_team
    /\ LET pos == lineup_requirements[fill_index].position
           player == candidates[1]
       IN  /\ lineup' = Seated(lineup, pos, player)
           /\ total_salary' = total_salary + player.salary
           /\ total_points' = RAdd(total_points, player.projected_points)
           /\ team_counts' = Counted(team_counts, player.team)
           /\ AfterCandidate(Len(lineup[pos]) + 1 >= lineup_requirements[fill_index].count)
    /\ UNCHANGED <<player_pool, constraints, lineup_requirements, players_by_position,
                   must_index, dfs_result, projVars, analysis_of, sessionVars, toolVars, lineupVars>>

\* the only return of _build_dfs_lineup: a lineup dict
ReturnLineup ==
    /\ dfs_pc = "fill"
    /\ fill_index > Len(lineup_requirements)
    /\ dfs_result' =
           Some([outcome |-> "lineup",
                 lineup |-> [pos \in DOMAIN lineup |->
                                [i \in 1..Len(lineup[pos]) |-> lineup[pos][i].name]],
                 total_salary |-> total_salary,
                 total_projected_points |-> total_points,
                 salary_remaining |-> constraints.salary_cap - total_salary,
                 team_distribution |-> team_counts])
    /\ dfs_pc' = "done"
    /\ UNCHANGED <<player_pool, constraints, lineup_requirements, players_by_position,
                   lineup, total_salary, total_points, team_counts, must_index,
                   fill_index, candidates, projVars, analysis_of, sessionVars, toolVars, lineupVars>>

-----------------------------------------------------------------------------
(* Bounds and inputs of SpecDFS *)

\* longest player pool
MaxPool == 3

\* the slate: what the analyzer handed to FantasyTools answers for each name.
\* A quarterback and a running back of team A, a running back of team B
\* without a listed salary and with the same points per dollar as the other,
\* and a player x whose analysis raises or lacks roster info.  The roster
\* info is the analyzer's to give: _build_dfs_lineup takes any pool.
SlateNames == {"q1", "r1", "r2", "x"}

Slates ==
    {[n \in SlateNames |->
        CASE n = "q1" -> PlayerProps("QB", R(20, 1), Some(RosterInfo("A", Some(9000))))
          [] n = "r1" -> PlayerProps("RB", R(15, 1), Some(RosterInfo("A", Some(5000))))
          [] n = "r2" -> PlayerProps("RB", R(15, 1), Some(RosterInfo("B", None)))
          [] OTHER -> x] : x \in {Raises, PlayerProps("RB", R(30, 1), None)}}

MustIncludeLists ==
    {None, Some(<<"q1">>), Some(<<"q1", "r1">>), Some(<<"r1", "r2">>),
     Some(<<"r2", "r1">>), Some(<<"x", "r2">>), Some(<<"r1", "r1">>)}

BannedLists == {None, Some(<<"r1">>)}

DFSConstraints ==
    [salary_cap : {9000, 14000},
     max_players_per_team : {1, 2},
     banned_players : BannedLists,
     must_include : MustIncludeLists]

\* none (the default applies), quarterback then running back, and two running
\* backs then the quarterback
DFSRequirements ==
    {<<>>,
     <<[position |-> "QB", count |-> 1], [position |-> "RB", count |-> 1]>>,
     <<[position |-> "RB", count |-> 2], [position |-> "QB", count |-> 1]>>}

-----------------------------------------------------------------------------
(* SpecDFS *)

InitDFS ==
    /\ ProjectionIdle
    /\ analysis_of \in Slates
    /\ LineupIdle
    /\ DFSIdle
    /\ ToolsIdle
    /\ SessionIdle

\* optimize_dfs_lineup up to the entry of _build_dfs_lineup and the
\* initialisation of its locals
EnterBuildDFSLineup(pool, c, reqs) ==
    /\ player_pool' = pool
    /\ constraints' = c
    /\ lineup_requirements' = DFSRequirementsOrDefault(reqs)
    /\ players_by_position' = PoolByPosition(pool, analysis_of, c.banned_players)
    /\ lineup' = [p \in {} |-> <<>>]
    /\ total_salary' = 0
    /\ total_points' = Zero
    /\ team_counts' = [t \in {} |-> 0]
    /\ must_index' = 1
    /\ fill_index' = 1
    /\ candidates' = <<>>
    /\ dfs_result' = None
    /\ dfs_pc' = IF MustIncludeList(c) = <<>> THEN "fill" ELSE "must"
    /\ UNCHANGED <<projVars, analysis_of, sessionVars, toolVars, lineupVars>>

\* one call of optimize_dfs_lineup on the slate
OptimizeDFSLineup ==
    /\ dfs_pc = "idle"
    /\ \E pool \in SeqsUpTo(SlateNames, MaxPool), c \in DFSConstraints, reqs \in DFSRequirements :
        EnterBuildDFSLineup(pool, c, reqs)

NextDFS ==
    \/ OptimizeDFSLineup
    \/ MustIncludeSeat
    \/ MustIncludePass
    \/ FillStart
    \/ SkipOverCap
    \/ SkipTeamFull
    \/ CommitCandidate
    \/ ReturnLineup

SpecDFS == InitDFS /\ [][NextDFS]_vars

-----------------------------------------------------------------------------
(* Claims about the DFS optimizer *)

DFSReturned == dfs_pc = "done" /\ IsSome(dfs_result)

\* the names committed to the lineup
Committed == UNION {{lineup[pos][i].name : i \in 1..Len(lineup[pos])} : pos \in DOMAIN lineup}

\* a required slot of the position at requirement item i is empty, and a
\* candidate of that position is left that the remaining budget cannot pay
SlotBlockedBySalary(i) ==
    LET pos == lineup_requirements[i].position
    IN  /\ Len(WithKey(lineup, pos)[pos]) < lineup_requirements[i].count
        /\ pos \in DOMAIN players_by_position
        /\ \E k \in 1..Len(players_by_position[pos]) :
               LET player == players_by_position[pos][k]
               IN  /\ player.name \notin Committed
                   /\ total_salary + player.salary > constraints.salary_cap

\* C1: the total salary of the returned lineup never exceeds the salary cap.
C1_TotalSalaryWithinCap ==
    DFSReturned => Get(dfs_result).total_salary <= constraints.salary_cap

\* C2: no team has more committed players in the returned lineup than
\* max_players_per_team.
C2_TeamCountsWithinLimit ==
    DFSReturned =>
        \A t \in DOMAIN Get(dfs_result).team_distribution :
            Get(dfs_result).team_distribution[t] <= constraints.max_players_per_team

\* C3: when a required slot cannot be filled within the salary cap the
\* outcome is infeasible, never a lineup with that slot empty.
C3_BlockedSlotIsInfeasible ==
    (DFSReturned /\ \E i \in 1..Len(lineup_requirements) : SlotBlockedBySalary(i)) =>
        Get(dfs_result).outcome = "infeasible"

\* C4: every must-include player is seated in the returned lineup, or the
\* outcome is infeasible.
C4_MustIncludeSeatedOrInfeasible ==
    DFSReturned =>
        \/ Range(MustIncludeList(constraints)) \subseteq Committed
        \/ Get(dfs_result).outcome = "infeasible"

-----------------------------------------------------------------------------
(* Analyses with a full projection, for the tools that read the confidence, *)
(* the breakdown and the ownership                                          *)

RNeg(x) == <<-x[1], x[2]>>

RSub(x, y) == RAdd(x, RNeg(y))

\* abs(x)
RAbs(x) == <<Abs(x[1]), x[2]>>

One == <<1, 1>>

\* FantasyProjection
Projection(pos, pts, conf, breakdown) ==
    [position |-> pos, projected_points |-> pts, confidence |-> conf,
     breakdown |-> breakdown]

\* PlayerProps of a player with a projection
Projected(pos, pts, conf, breakdown, info) ==
    [raises |-> FALSE, position |-> Some(pos),
     fantasy_projection |-> Some(Projection(pos, pts, conf, breakdown)),
     roster_info |-> info]

NoBreakdown == [k \in {} |-> Zero]

-----------------------------------------------------------------------------
(* FantasyEdgeAnalyzer.compare_players *)

\* mutant: a difference of exactly one point still counts as close
Recommendation_CloseAtOne(point_advantage, name1, name2) ==
    IF RLe(RAbs(point_advantage), One) THEN [kind |-> "close"]
    ELSE IF RLt(Zero, point_advantage)
         THEN [kind |-> "start", player |-> name1, margin |-> point_advantage]
         ELSE [kind |-> "start", player |-> name2, margin |-> RAbs(point_advantage)]

\* "Determine recommendation": the text names the player to start and the
\* margin
Recommendation(point_advantage, name1, name2) ==
    IF RLt(RAbs(point_advantage), One) THEN [kind |-> "close"]
    ELSE IF RLt(Zero, point_advantage)
         THEN [kind |-> "start", player |-> name1, margin |-> point_advantage]
         ELSE [kind |-> "start", player |-> name2, margin |-> RAbs(point_advantage)]

\* mutant: a missing projection ends the call like an analysis that raises
ComparePlayersResult_RaisesOnAbsent(name1, name2, env) ==
    IF env[name1].raises \/ env[name2].raises THEN [outcome |-> "raised"]
    ELSE IF ~IsSome(env[name1].fantasy_projection) \/ ~IsSome(env[name2].fantasy_projection)
    THEN [outcome |-> "raised"]
    ELSE [outcome |-> "compared",
          recommendation |->
              Recommendation(RSub(Get(env[name1].fantasy_projection).projected_points,
                                  Get(env[name2].fantasy_projection).projected_points),
                             name1, name2)]

\* compare_players has no try: an analysis that raises ends the call
ComparePlayersResult(name1, name2, env) ==
    IF env[name1].raises \/ env[name2].raises THEN [outcome |-> "raised"]
    ELSE IF ~IsSome(env[name1].fantasy_projection) \/ ~IsSome(env[name2].fantasy_projection)
    THEN [outcome |-> "error"]
    ELSE LET proj1 == Get(env[name1].fantasy_projection)
             proj2 == Get(env[name2].fantasy_projection)
             point_advantage == RSub(proj1.projected_points, proj2.projected_points)
             confidence_advantage == RSub(proj1.confidence, proj2.confidence)
         IN  [outcome |-> "compared",
              point_advantage |-> point_advantage,
              confidence_advantage |-> confidence_advantage,
              recommendation |-> Recommendation(point_advantage, name1, name2),
              closer_player |-> IF RLt(Zero, point_advantage) THEN name1 ELSE name2,
              point_difference |-> RAbs(point_advantage),
              confidence_difference |-> RAbs(confidence_advantage)]

-----------------------------------------------------------------------------
(* SpecCompare *)

CompareNames == {"a", "b"}

\* projections half a point, one point and three points apart
CompareOutcomes ==
    {Raises, Unprojected}
        \cup {Projected("WR", pts, conf, NoBreakdown, None) :
                pts \in {R(10, 1), R(21, 2), R(11, 1), R(13, 1)},
                conf \in {R(6, 10), R(8, 10)}}

InitCompare ==
    /\ ProjectionIdle
    /\ analysis_of \in [CompareNames -> CompareOutcomes]
    /\ LineupIdle
    /\ DFSIdle
    /\ ToolsIdle
    /\ SessionIdle

\* one call of compare_players
ComparePlayers ==
    /\ compare_pc = "idle"
    /\ \E name1 \in CompareNames, name2 \in CompareNames :
        /\ player1_name' = name1
        /\ player2_name' = name2
        /\ comparison' = Some(ComparePlayersResult(name1, name2, analysis_of))
        /\ compare_pc' = "returned"
        /\ UNCHANGED <<projVars, analysis_of, sessionVars, lineupVars, dfsVars, tradeVars,
                       waiverVars, breakoutVars>>

NextCompare == ComparePlayers

SpecCompare == InitCompare /\ [][NextCompare]_vars

-----------------------------------------------------------------------------
(* Claims about the comparator *)

Compared == compare_pc = "returned" /\ Get(comparison).outcome = "compared"

PointsOf(name) == Get(analysis_of[name].fantasy_projection).projected_points

\* C12: the point advantage is the first player's points less the second's;
\* the recommendation is "close" exactly when the advantage lies strictly
\* between -1 and 1, and otherwise names the player with more points.
C12_CloseIffWithinOnePoint ==
    Compared =>
        LET delta == Get(comparison).point_advantage
            rec == Get(comparison).recommendation
        IN  /\ RAdd(delta, PointsOf(player2_name)) = PointsOf(player1_name)
            /\ rec.kind = "close" <=> (RLt(RNeg(One), delta) /\ RLt(delta, One))
            /\ RLe(One, delta) => (rec.kind = "start" /\ rec.player = player1_name)
            /\ RLe(delta, RNeg(One)) => (rec.kind = "start" /\ rec.player = player2_name)

\* the second player is ahead by exactly one point and is recommended
C12_Witness ==
    /\ Compared
    /\ Get(comparison).point_advantage = RNeg(One)
    /\ Get(comparison).recommendation.kind = "start"
    /\ Get(comparison).recommendation.player = player2_name
    /\ player1_name # player2_name

-----------------------------------------------------------------------------
(* FantasyTools.analyze_trade *)

\* LeagueType
LeagueTypes == {"redraft", "dynasty", "keeper", "dfs"}

\* give_analyses / receive_analyses: the analyses of the players of one side
\* in list order, those that raised left out
AnalysesOf(players, env) ==
    LET answered == SelectSeq(players, LAMBDA n : ~env[n].raises)
    IN  [i \in 1..Len(answered) |-> env[answered[i]]]

\* mutant: the dynasty premium is applied to keeper leagues too
CalculatePlayerValue_KeeperPremium(analysis, league) ==
    IF ~IsSome(analysis.fantasy_projection) THEN Zero
    ELSE LET proj == Get(analysis.fantasy_projection)
         IN  IF league \in {"dynasty", "keeper"} THEN RMul(proj.projected_points, R(12, 10))
             ELSE IF league = "dfs" THEN RMul(proj.projected_points, proj.confidence)
             ELSE proj.projected_points

\* FantasyTools._calculate_player_value
CalculatePlayerValue(analysis, league) ==
    IF ~IsSome(analysis.fantasy_projection) THEN Zero
    ELSE LET proj == Get(analysis.fantasy_projection)
         IN  IF league = "dynasty" THEN RMul(proj.projected_points, R(12, 10))
             ELSE IF league = "dfs" THEN RMul(proj.projected_points, proj.confidence)
             ELSE proj.projected_points

\* sum(self._calculate_player_value(analysis, league_type) for analysis in ...)
SideValue(analyses, league) ==
    RSum([i \in 1..Len(analyses) |-> CalculatePlayerValue(analyses[i], league)])

\* mutant: the size of the difference, whichever side it favours
TradeValue_Magnitude(give_value, receive_value) == RAbs(RSub(receive_value, give_value))

\* trade_value = receive_value - give_value
TradeValue(give_value, receive_value) == RSub(receive_value, give_value)

\* mutant: a trade has to gain more than two points to be favorable
Explanation_FavorableAboveTwo(trade_value) ==
    IF RLt(R(5, 1), trade_value) THEN "strongly favorable"
    ELSE IF RLt(R(2, 1), trade_value) THEN "favorable"
    ELSE IF RLt(RNeg(One), trade_value) THEN "fair"
    ELSE IF RLt(R(-5, 1), trade_value) THEN "unfavorable"
    ELSE "strongly unfavorable"

\* mutant: the thresholds belong to the class above them
Explanation_AtLeast(trade_value) ==
    IF RLe(R(5, 1), trade_value) THEN "strongly favorable"
    ELSE IF RLe(One, trade_value) THEN "favorable"
    ELSE IF RLe(RNeg(One), trade_value) THEN "fair"
    ELSE IF RLe(R(-5, 1), trade_value) THEN "unfavorable"
    ELSE "strongly unfavorable"

\* "Generate explanation": the class the explanation text states
Explanation(trade_value) ==
    IF RLt(R(5, 1), trade_value) THEN "strongly favorable"
    ELSE IF RLt(One, trade_value) THEN "favorable"
    ELSE IF RLt(RNeg(One), trade_value) THEN "fair"
    ELSE IF RLt(R(-5, 1), trade_value) THEN "unfavorable"
    ELSE "strongly unfavorable"

\* the confidences summed: those of the analyses that have a projection
ConfidencesOf(analyses) ==
    LET projected == SelectSeq(analyses, LAMBDA a : IsSome(a.fantasy_projection))
    IN  [i \in 1..Len(projected) |-> Get(projected[i].fantasy_projection).confidence]

\* sum(... if a.fantasy_projection) / len(analyses) if analyses else 0
SideConfidence(analyses) ==
    IF analyses # <<>> THEN RDiv(RSum(ConfidencesOf(analyses)), R(Len(analyses), 1))
    ELSE Zero

\* TradeProposal
AnalyzeTradeResult(give, receive, league, env) ==
    LET give_analyses == AnalysesOf(give, env)
        receive_analyses == AnalysesOf(receive, env)
        trade_value == TradeValue(SideValue(give_analyses, league),
                                  SideValue(receive_analyses, league))
    IN  [give_players |-> give,
         receive_players |-> receive,
         trade_value |-> trade_value,
         explanation |-> Explanation(trade_value),
         confidence |-> RDiv(RAdd(SideConfidence(give_analyses),
                                  SideConfidence(receive_analyses)), R(2, 1))]

-----------------------------------------------------------------------------
(* Bounds and inputs of SpecTrade *)

\* most players on one side of a trade
MaxTradeSide == 2

\* players worth 6, 5 and 1 points, and a player u whose analysis raises or
\* comes back without a projection
TradeNames == {"a", "b", "c", "u"}

TradeMarkets ==
    {[n \in TradeNames |->
        CASE n = "a" -> Projected("RB", R(6, 1), R(8, 10), NoBreakdown, None)
          [] n = "b" -> Projected("WR", R(5, 1), R(6, 10), NoBreakdown, None)
          [] n = "c" -> Projected("TE", R(1, 1), R(1, 2), NoBreakdown, None)
          [] OTHER -> u] : u \in {Raises, Unprojected}}

-----------------------------------------------------------------------------
(* SpecTrade *)

InitTrade ==
    /\ ProjectionIdle
    /\ analysis_of \in TradeMarkets
    /\ LineupIdle
    /\ DFSIdle
    /\ ToolsIdle
    /\ SessionIdle

\* one call of analyze_trade
AnalyzeTrade ==
    /\ trade_pc = "idle"
    /\ \E give \in SeqsUpTo(TradeNames, MaxTradeSide),
          receive \in SeqsUpTo(TradeNames, MaxTradeSide),
          league \in LeagueTypes :
        /\ give_players' = give
        /\ receive_players' = receive
        /\ league_type' = league
        /\ trade_proposal' = Some(AnalyzeTradeResult(give, receive, league, analysis_of))
        /\ trade_pc' = "returned"
        /\ UNCHANGED <<reverse_proposal, projVars, analysis_of, sessionVars, lineupVars, dfsVars,
                       compareVars, waiverVars, breakoutVars>>

\* the other manager's call of analyze_trade for the same trade: the two
\* lists swapped, the league type the same
AnalyzeTradeReversed ==
    /\ trade_pc = "returned"
    /\ reverse_proposal' =
           Some(AnalyzeTradeResult(receive_players, give_players, league_type, analysis_of))
    /\ trade_pc' = "reversed"
    /\ UNCHANGED <<give_players, receive_players, league_type, trade_proposal,
                   projVars, analysis_of, sessionVars, lineupVars, dfsVars, compareVars,
                   waiverVars, breakoutVars>>

NextTrade == AnalyzeTrade \/ AnalyzeTradeReversed

SpecTrade == InitTrade /\ [][NextTrade]_vars

-----------------------------------------------------------------------------
(* Claims about the trade evaluator *)

TradeReturned == trade_pc \in {"returned", "reversed"}

\* both managers' evaluations of one trade are in
BothSidesEvaluated == trade_pc = "reversed"

\* C13: under Redraft the value of a trade with the two lists swapped is the
\* negation of the trade's value.
C13_RedraftValueAntiSymmetric ==
    (BothSidesEvaluated /\ league_type = "redraft") =>
        Get(reverse_proposal).trade_value = RNeg(Get(trade_proposal).trade_value)

\* a for b and u: a point lost one way round, a point gained the other
C13_Witness ==
    /\ BothSidesEvaluated
    /\ league_type = "redraft"
    /\ give_players = <<"a">>
    /\ receive_players = <<"b", "u">>
    /\ Get(trade_proposal).trade_value = R(-1, 1)
    /\ Get(reverse_proposal).trade_value = R(1, 1)

\* the multiplier the specification gives each league type
LeagueMultiplier(n) ==
    CASE league_type = "dynasty" -> R(12, 10)
      [] league_type = "dfs" -> Get(analysis_of[n].fantasy_projection).confidence
      [] OTHER -> One

\* a listed player's value: nothing without a projection
ValueOfPlayer(n) ==
    IF analysis_of[n].raises \/ ~IsSome(analysis_of[n].fantasy_projection) THEN Zero
    ELSE RMul(PointsOf(n), LeagueMultiplier(n))

\* the values of a list's players summed, a player listed twice counting twice
ValueOfList(players) ==
    SumOver(1..Len(players), [i \in 1..Len(players) |-> ValueOfPlayer(players[i])])

\* C14: the trade value is the summed value of the received players less the
\* summed value of the given players; a value is the projected points times
\* 1.2 (Dynasty), times the confidence (DFS) or times 1 (Redraft, Keeper),
\* and zero for a player without a projection, whoever else is listed.
C14_ValueIsReceiveLessGive ==
    TradeReturned =>
        Get(trade_proposal).trade_value =
            RSub(ValueOfList(receive_players), ValueOfList(give_players))

\* a keeper-league trade with a player without a projection listed before a
\* projected player on the receiving side
C14_Witness ==
    /\ TradeReturned
    /\ league_type = "keeper"
    /\ give_players = <<"b">>
    /\ receive_players = <<"u", "a">>
    /\ Get(trade_proposal).trade_value = One

\* C15: the class depends on the trade value alone: above 5 strongly
\* favorable, else above 1 favorable, else above -1 fair, else above -5
\* unfavorable, else strongly unfavorable.
C15_ClassByStrictThresholds ==
    TradeReturned =>
        LET v == Get(trade_proposal).trade_value
            class == Get(trade_proposal).explanation
        IN  /\ class = "strongly favorable" <=> RLt(R(5, 1), v)
            /\ class = "favorable" <=> (RLt(One, v) /\ RLe(v, R(5, 1)))
            /\ class = "fair" <=> (RLt(RNeg(One), v) /\ RLe(v, One))
            /\ class = "unfavorable" <=> (RLt(R(-5, 1), v) /\ RLe(v, RNeg(One)))
            /\ class = "strongly unfavorable" <=> RLe(v, R(-5, 1))

\* a trade worth exactly 5 is favorable, not strongly favorable
C15_Witness ==
    /\ TradeReturned
    /\ Get(trade_proposal).trade_value = R(5, 1)
    /\ Get(trade_proposal).explanation = "favorable"

\* the class the other side of a trade is said to get
MirrorClass(class) ==
    CASE class = "strongly favorable" -> "strongly unfavorable"
      [] class = "favorable" -> "unfavorable"
      [] class = "fair" -> "fair"
      [] class = "unfavorable" -> "favorable"
      [] class = "strongly unfavorable" -> "strongly favorable"

\* C16: under Redraft the class of a trade with the two lists swapped is the
\* mirror image of the trade's class, at every trade value.
C16_ClassesMirrorEachOther ==
    (BothSidesEvaluated /\ league_type = "redraft") =>
        Get(reverse_proposal).explanation = MirrorClass(Get(trade_proposal).explanation)

\* C16 as amended: the classes mirror each other at every trade value other
\* than 1, -1, 5 and -5; at 1 the trade is fair and the swapped trade
\* unfavorable, at 5 it is favorable and the swapped trade strongly
\* unfavorable.
C16_ClassesMirrorOffThresholds ==
    (BothSidesEvaluated /\ league_type = "redraft") =>
        LET v == Get(trade_proposal).trade_value
            class == Get(trade_proposal).explanation
            swapped == Get(reverse_proposal).explanation
        IN  /\ RAbs(v) \notin {One, R(5, 1)} => swapped = MirrorClass(class)
            /\ v = One => (class = "fair" /\ swapped = "unfavorable")
            /\ v = RNeg(One) => (class = "unfavorable" /\ swapped = "fair")
            /\ v = R(5, 1) => (class = "favorable" /\ swapped = "strongly unfavorable")
            /\ v = R(-5, 1) => (class = "strongly unfavorable" /\ swapped = "favorable")

\* c for b, four points gained: favorable, and unfavorable the other way round
C16_Witness ==
    /\ BothSidesEvaluated
    /\ league_type = "redraft"
    /\ Get(trade_proposal).trade_value = R(4, 1)
    /\ Get(trade_proposal).explanation = "favorable"
    /\ Get(reverse_proposal).explanation = "unfavorable"

\* the players of a list that have a projection, by their place in the list
ProjectedIn(players) ==
    {i \in 1..Len(players) :
        ~analysis_of[players[i]].raises /\ IsSome(analysis_of[players[i]].fantasy_projection)}

\* the mean of the projection confidences of a list's players
MeanConfidence(players) ==
    RDiv(SumOver(ProjectedIn(players),
                 [i \in ProjectedIn(players) |->
                     Get(analysis_of[players[i]].fantasy_projection).confidence]),
         R(Cardinality(ProjectedIn(players)), 1))

\* C17: the confidence of the proposal is the average of the mean projection
\* confidence of the given players and that of the received players (stated
\* for trades with a projection on each side).
C17_ConfidenceIsMeanOfSideMeans ==
    (TradeReturned /\ ProjectedIn(give_players) # {} /\ ProjectedIn(receive_players) # {}) =>
        Get(trade_proposal).confidence =
            RDiv(RAdd(MeanConfidence(give_players), MeanConfidence(receive_players)), R(2, 1))

-----------------------------------------------------------------------------
(* FantasyTools.get_waiver_targets *)

\* PlayerRosterInfo with its ownership projection (no salary listed)
RosterInfoOwned(team, ownership) ==
    [team |-> team, salary |-> None, ownership_projection |-> ownership]

DefaultOwnership == R(25, 1)

\* analysis.roster_info.ownership_projection or 25.0
OwnershipOrDefault(info) ==
    IF IsSome(info.ownership_projection) /\ Get(info.ownership_projection) # Zero
    THEN Get(info.ownership_projection)
    ELSE DefaultOwnership

\* FantasyTools._calculate_waiver_priority
WaiverPriority(analysis, ownership) ==
    IF ~IsSome(analysis.fantasy_projection) THEN Zero
    ELSE LET proj == Get(analysis.fantasy_projection)
             ownership_boost == RMul(RDiv(RSub(R(100, 1), ownership), R(100, 1)), R(5, 1))
             confidence_boost == RMul(proj.confidence, R(3, 1))
         IN  RAdd(RAdd(proj.projected_points, ownership_boost), confidence_boost)

\* FantasyTools._generate_waiver_reason: which of the four texts
WaiverReason(analysis) ==
    IF ~IsSome(analysis.fantasy_projection) THEN "no projection"
    ELSE LET proj == Get(analysis.fantasy_projection)
         IN  IF RLt(R(15, 1), proj.projected_points) /\ RLt(R(7, 10), proj.confidence)
             THEN "high upside"
             ELSE IF RLt(R(12, 1), proj.projected_points) THEN "solid starter"
             ELSE IF RLt(R(8, 10), proj.confidence) THEN "low risk"
             ELSE "speculative"

\* the conditions under which the loop body appends a target
WaiverAccepts(analysis, needs, ceiling) ==
    /\ ~analysis.raises
    /\ IsSome(analysis.fantasy_projection)
    /\ \E i \in 1..Len(needs) : analysis.position = Some(needs[i])
    /\ IsSome(analysis.roster_info)
    /\ RLe(OwnershipOrDefault(Get(analysis.roster_info)), ceiling)

\* WaiverTarget
WaiverTarget(name, analysis) ==
    LET ownership == OwnershipOrDefault(Get(analysis.roster_info))
    IN  [player_name |-> name,
         position |-> Get(analysis.position),
         projected_points |-> Get(analysis.fantasy_projection).projected_points,
         ownership_percent |-> ownership,
         priority_score |-> WaiverPriority(analysis, ownership),
         reason |-> WaiverReason(analysis)]

\* a sort that puts an entry before the entries of equal score
RECURSIVE SortDescendingBeforeEquals(_, _)
SortDescendingBeforeEquals(s, pts) ==
    IF s = <<>> THEN <<>>
    ELSE InsertDescending_BeforeEquals(
             SortDescendingBeforeEquals(SubSeq(s, 1, Len(s) - 1), pts), s[Len(s)], pts)

\* mutant: entries of equal priority come out in reverse input order
RankTargets_TiesReversed(ts) ==
    SortDescendingBeforeEquals(ts, [t \in Range(ts) |-> t.priority_score])

\* targets.sort(key=lambda x: x.priority_score, reverse=True)
RankTargets(ts) == SortDescending(ts, [t \in Range(ts) |-> t.priority_score])

\* the call: the arguments are bound and the loop is entered
GetWaiverTargets(players, needs, ceiling) ==
    /\ available_players' = players
    /\ roster_needs' = needs
    /\ max_ownership' = ceiling
    /\ targets' = <<>>
    /\ waiver_index' = 1
    /\ waiver_pc' = "loop"

\* one pass of "for player_name in available_players"
EvaluateWaiverPlayer ==
    /\ waiver_pc = "loop"
    /\ waiver_index <= Len(available_players)
    /\ LET player_name == available_players[waiver_index]
           analysis == analysis_of[player_name]
       IN  targets' = IF WaiverAccepts(analysis, roster_needs, max_ownership)
                      THEN Append(targets, WaiverTarget(player_name, analysis))
                      ELSE targets
    /\ waiver_index' = waiver_index + 1
    /\ UNCHANGED <<available_players, roster_needs, max_ownership, waiver_pc,
                   projVars, analysis_of, sessionVars, lineupVars, dfsVars, compareVars,
                   tradeVars, breakoutVars>>

\* "Sort by priority score" and return
ReturnWaiverTargets ==
    /\ waiver_pc = "loop"
    /\ waiver_index > Len(available_players)
    /\ targets' = RankTargets(targets)
    /\ waiver_pc' = "returned"
    /\ UNCHANGED <<available_players, roster_needs, max_ownership, waiver_index,
                   projVars, analysis_of, sessionVars, lineupVars, dfsVars, compareVars,
                   tradeVars, breakoutVars>>

-----------------------------------------------------------------------------
(* FantasyTools.get_breakout_candidates *)

\* breakdown.get(key, 0)
BreakdownGet(breakdown, key) == IF key \in DOMAIN breakdown THEN breakdown[key] ELSE Zero

\* the score a candidate has to exceed
BreakoutCutoff == R(7, 1)

\* mutant: the receiving-yards bonus is given from 30 points on, as the
\* rushing-yards bonus is
BreakoutPotential_ReceivingAtThirty(analysis) ==
    IF ~IsSome(analysis.fantasy_projection) THEN Zero
    ELSE LET proj == Get(analysis.fantasy_projection)
             base_score == RMul(proj.projected_points, proj.confidence)
             rushing_upside == RLt(R(30, 1), BreakdownGet(proj.breakdown, "rushing_yards"))
             receiving_upside == RLt(R(30, 1), BreakdownGet(proj.breakdown, "receiving_yards"))
             td_upside == RLt(R(1, 2), BreakdownGet(proj.breakdown, "receiving_tds"))
         IN  RAdd(RAdd(RAdd(base_score,
                            IF rushing_upside THEN R(2, 1) ELSE Zero),
                       IF receiving_upside THEN R(2, 1) ELSE Zero),
                  IF td_upside THEN R(3, 1) ELSE Zero)

\* FantasyTools._calculate_breakout_potential
BreakoutPotential(analysis) ==
    IF ~IsSome(analysis.fantasy_projection) THEN Zero
    ELSE LET proj == Get(analysis.fantasy_projection)
             base_score == RMul(proj.projected_points, proj.confidence)
             rushing_upside == RLt(R(30, 1), BreakdownGet(proj.breakdown, "rushing_yards"))
             receiving_upside == RLt(R(60, 1), BreakdownGet(proj.breakdown, "receiving_yards"))
             td_upside == RLt(R(1, 2), BreakdownGet(proj.breakdown, "receiving_tds"))
         IN  RAdd(RAdd(RAdd(base_score,
                            IF rushing_upside THEN R(2, 1) ELSE Zero),
                       IF receiving_upside THEN R(2, 1) ELSE Zero),
                  IF td_upside THEN R(3, 1) ELSE Zero)

\* FantasyTools._generate_breakout_reasoning: which of the four texts
BreakoutReasoning(breakout_score) ==
    IF RLt(R(15, 1), breakout_score) THEN "elite"
    ELSE IF RLt(R(12, 1), breakout_score) THEN "strong"
    ELSE IF RLt(R(9, 1), breakout_score) THEN "solid"
    ELSE "speculative"

\* the conditions under which the loop body appends a candidate
BreakoutAccepts(analysis, threshold) ==
    /\ ~analysis.raises
    /\ IsSome(analysis.fantasy_projection)
    /\ RLe(threshold, Get(analysis.fantasy_projection).confidence)
    /\ RLt(BreakoutCutoff, BreakoutPotential(analysis))

\* the dict appended to breakout_candidates
BreakoutCandidate(name, analysis) ==
    [player_name |-> name,
     position |-> IF IsSome(analysis.position) THEN Get(analysis.position) ELSE "Unknown",
     projected_points |-> Get(analysis.fantasy_projection).projected_points,
     confidence |-> Get(analysis.fantasy_projection).confidence,
     breakout_score |-> BreakoutPotential(analysis),
     team |-> IF IsSome(analysis.roster_info) THEN Get(analysis.roster_info).team
              ELSE "Unknown",
     reasoning |-> BreakoutReasoning(BreakoutPotential(analysis))]

\* breakout_candidates.sort(key=lambda x: x['breakout_score'], reverse=True)
RankCandidates(cs) == SortDescending(cs, [c \in Range(cs) |-> c.breakout_score])

\* the call: the arguments are bound and the loop is entered
GetBreakoutCandidates(pool, threshold) ==
    /\ breakout_pool' = pool
    /\ min_confidence' = threshold
    /\ breakout_candidates' = <<>>
    /\ breakout_index' = 1
    /\ breakout_pc' = "loop"

\* one pass of "for player_name in player_pool"
EvaluateBreakoutPlayer ==
    /\ breakout_pc = "loop"
    /\ breakout_index <= Len(breakout_pool)
    /\ LET player_name == breakout_pool[breakout_index]
           analysis == analysis_of[player_name]
       IN  breakout_candidates' =
               IF BreakoutAccepts(analysis, min_confidence)
               THEN Append(breakout_candidates, BreakoutCandidate(player_name, analysis))
               ELSE breakout_candidates
    /\ breakout_index' = breakout_index + 1
    /\ UNCHANGED <<breakout_pool, min_confidence, breakout_pc, projVars, analysis_of, sessionVars,
                   lineupVars, dfsVars, compareVars, tradeVars, waiverVars>>

\* "Sort by breakout score" and return
ReturnBreakoutCandidates ==
    /\ breakout_pc = "loop"
    /\ breakout_index > Len(breakout_pool)
    /\ breakout_candidates' = RankCandidates(breakout_candidates)
    /\ breakout_pc' = "returned"
    /\ UNCHANGED <<breakout_pool, min_confidence, breakout_index, projVars, analysis_of, sessionVars,
                   lineupVars, dfsVars, compareVars, tradeVars, waiverVars>>

-----------------------------------------------------------------------------
(* Bounds and inputs of SpecRankers *)

\* longest list of players given to a ranker
MaxCandidates == 3

\* the waiver wire: running backs of 10 points owned 0%, an unlisted share
\* and 40%, a running back of 9.25 points owned 10% (his priority is that of
\* the unlisted one), and a wide receiver
WaiverNames == {"z", "n", "h", "l", "w"}

\* the breakout pool: r and e score 9, s is at every cutoff exactly, y has
\* both receiving bonuses, lo scores 10 on a confidence of 0.5
BreakoutNames == {"r", "s", "y", "lo", "e"}

\* a player whose analysis raises, comes without a projection, or comes with
\* a projection and no roster info
OddName == "x"

RankerNames == WaiverNames \cup BreakoutNames \cup {OddName}

Breakdown(rushing_yards, receiving_yards, receiving_tds) ==
    [k \in {"rushing_yards", "receiving_yards", "receiving_tds"} |->
        CASE k = "rushing_yards" -> rushing_yards
          [] k = "receiving_yards" -> receiving_yards
          [] OTHER -> receiving_tds]

RankerMarkets ==
    {[name \in RankerNames |->
        CASE name = "z" -> Projected("RB", R(10, 1), R(8, 10), NoBreakdown,
                                     Some(RosterInfoOwned("A", Some(Zero))))
          [] name = "n" -> Projected("RB", R(10, 1), R(8, 10), NoBreakdown,
                                     Some(RosterInfoOwned("A", None)))
          [] name = "h" -> Projected("RB", R(10, 1), R(8, 10), NoBreakdown,
                                     Some(RosterInfoOwned("B", Some(R(40, 1)))))
          [] name = "l" -> Projected("RB", R(37, 4), R(8, 10), NoBreakdown,
                                     Some(RosterInfoOwned("B", Some(R(10, 1)))))
          [] name = "w" -> Projected("WR", R(12, 1), R(8, 10), NoBreakdown,
                                     Some(RosterInfoOwned("A", Some(R(10, 1)))))
          [] name = "r" -> Projected("RB", R(10, 1), R(7, 10),
                                     [k \in {"rushing_yards"} |-> R(31, 1)], None)
          [] name = "s" -> Projected("RB", R(10, 1), R(7, 10),
                                     Breakdown(R(30, 1), R(60, 1), R(1, 2)), None)
          [] name = "y" -> Projected("WR", R(9, 1), R(8, 10),
                                     Breakdown(Zero, R(61, 1), R(6, 10)), None)
          [] name = "lo" -> Projected("WR", R(20, 1), R(1, 2), NoBreakdown, None)
          [] name = "e" -> Projected("WR", R(45, 4), R(8, 10),
                                     [k \in {"receiving_yards"} |-> R(40, 1)], None)
          [] OTHER -> x] :
        x \in {Raises, Unprojected,
               Projected("RB", R(30, 1), R(8, 10), NoBreakdown, None)}}

RosterNeeds == {<<"RB">>, <<"WR", "RB">>}

OwnershipCeilings == {R(10, 1), R(40, 1), R(50, 1)}

ConfidenceThresholds == {R(1, 2), R(7, 10), R(8, 10)}

-----------------------------------------------------------------------------
(* SpecRankers: one call of a ranker *)

InitRankers ==
    /\ ProjectionIdle
    /\ analysis_of \in RankerMarkets
    /\ LineupIdle
    /\ DFSIdle
    /\ ToolsIdle
    /\ SessionIdle

CallWaiverRanker ==
    /\ waiver_pc = "idle"
    /\ breakout_pc = "idle"
    /\ \E players \in SeqsUpTo(WaiverNames \cup {OddName}, MaxCandidates),
          needs \in RosterNeeds, ceiling \in OwnershipCeilings :
        GetWaiverTargets(players, needs, ceiling)
    /\ UNCHANGED <<projVars, analysis_of, sessionVars, lineupVars, dfsVars, compareVars,
                   tradeVars, breakoutVars>>

CallBreakoutRanker ==
    /\ waiver_pc = "idle"
    /\ breakout_pc = "idle"
    /\ \E pool \in SeqsUpTo(BreakoutNames \cup {OddName}, MaxCandidates),
          threshold \in ConfidenceThresholds :
        GetBreakoutCandidates(pool, threshold)
    /\ UNCHANGED <<projVars, analysis_of, sessionVars, lineupVars, dfsVars, compareVars,
                   tradeVars, waiverVars>>

NextRankers ==
    \/ CallWaiverRanker
    \/ EvaluateWaiverPlayer
    \/ ReturnWaiverTargets
    \/ CallBreakoutRanker
    \/ EvaluateBreakoutPlayer
    \/ ReturnBreakoutCandidates

SpecRankers == InitRankers /\ [][NextRankers]_vars

-----------------------------------------------------------------------------
(* Claims about the rankers *)

WaiverReturned == waiver_pc = "returned"

BreakoutReturned == breakout_pc = "returned"

NamesOf(entries) == [i \in 1..Len(entries) |-> entries[i].player_name]

\* how often a name is listed, and how often it is among the entries
Occurrences(players, n) == Cardinality({i \in 1..Len(players) : players[i] = n})

EntriesOf(entries, n) == Cardinality({i \in 1..Len(entries) : entries[i].player_name = n})

IsProjected(n) == ~analysis_of[n].raises /\ IsSome(analysis_of[n].fantasy_projection)

ConfidenceOf(n) == Get(analysis_of[n].fantasy_projection).confidence

\* the roster info of the player states an ownership percentage
HasOwnership(n) ==
    /\ ~analysis_of[n].raises
    /\ IsSome(analysis_of[n].roster_info)
    /\ IsSome(Get(analysis_of[n].roster_info).ownership_projection)

OwnershipOf(n) == Get(Get(analysis_of[n].roster_info).ownership_projection)

\* projected points + (100 - ownership)/100*5 + confidence*3
PriorityOf(n) ==
    RAdd(RAdd(PointsOf(n),
              RDiv(RMul(RSub(R(100, 1), OwnershipOf(n)), R(5, 1)), R(100, 1))),
         RMul(ConfidenceOf(n), R(3, 1)))

\* C18: of the projected players with a stated ownership, the waiver ranker
\* returns exactly those whose position is needed and whose ownership is at
\* most the ceiling, once for each time they are listed, each with the
\* priority score computed from the player's own ownership.
C18_WaiverTargetsByOwnOwnership ==
    WaiverReturned =>
        /\ \A n \in Range(available_players) :
               (IsProjected(n) /\ HasOwnership(n)) =>
                   EntriesOf(targets, n) =
                       IF /\ Get(analysis_of[n].position) \in Range(roster_needs)
                          /\ RLe(OwnershipOf(n), max_ownership)
                       THEN Occurrences(available_players, n)
                       ELSE 0
        /\ \A i \in 1..Len(targets) :
               HasOwnership(targets[i].player_name) =>
                   /\ targets[i].ownership_percent = OwnershipOf(targets[i].player_name)
                   /\ targets[i].priority_score = PriorityOf(targets[i].player_name)

\* the bonus of a breakdown category above its cutoff; none without the entry
BonusOf(n, key, cutoff, bonus) ==
    LET breakdown == Get(analysis_of[n].fantasy_projection).breakdown
    IN  IF key \in DOMAIN breakdown /\ RLt(cutoff, breakdown[key]) THEN bonus ELSE Zero

\* points*confidence and the three bonuses
BreakoutScoreOf(n) ==
    SumOver(1..4,
            <<RMul(PointsOf(n), ConfidenceOf(n)),
              BonusOf(n, "rushing_yards", R(30, 1), R(2, 1)),
              BonusOf(n, "receiving_yards", R(60, 1), R(2, 1)),
              BonusOf(n, "receiving_tds", R(1, 2), R(3, 1))>>)

\* C19: the breakout ranker returns exactly the projected players whose
\* confidence is at least the threshold and whose breakout score is above
\* 7.0, once for each time they are listed, each with that score.
C19_BreakoutCandidatesByScore ==
    BreakoutReturned =>
        /\ \A n \in Range(breakout_pool) :
               EntriesOf(breakout_candidates, n) =
                   IF /\ IsProjected(n)
                      /\ RLe(min_confidence, ConfidenceOf(n))
                      /\ RLt(R(7, 1), BreakoutScoreOf(n))
                   THEN Occurrences(breakout_pool, n)
                   ELSE 0
        /\ Range(NamesOf(breakout_candidates)) \subseteq Range(breakout_pool)
        /\ \A i \in 1..Len(breakout_candidates) :
               breakout_candidates[i].breakout_score =
                   BreakoutScoreOf(breakout_candidates[i].player_name)

\* s, at 7.0 with every category at its cutoff, is left out; y, with both
\* receiving bonuses, and r, whose confidence is the threshold, are returned
C19_Witness ==
    /\ BreakoutReturned
    /\ breakout_pool = <<"s", "r", "y">>
    /\ min_confidence = R(7, 10)
    /\ NamesOf(breakout_candidates) = <<"y", "r">>
    /\ breakout_candidates[1].breakout_score = R(122, 10)

\* the entries are in the order in which the players are listed
InListOrder(entries, players) ==
    NamesOf(entries) = SelectSeq(players, LAMBDA n : n \in Range(NamesOf(entries)))

\* descending by score, entries of equal score in the order of the list
RankedStably(entries, score, players) ==
    /\ \A i, j \in 1..Len(entries) : i < j => RLe(score[entries[j]], score[entries[i]])
    /\ \A e \in Range(entries) :
           InListOrder(SelectSeq(entries, LAMBDA f : score[f] = score[e]), players)

\* C20: what a ranker returns is in non-increasing order of score with equal
\* scores in input order, it is returned when every listed player has been
\* analysed, and until then the entries gathered are in input order: nothing
\* is sorted before the end.
C20_SortedStablyAfterGathering ==
    /\ waiver_pc = "loop" =>
           InListOrder(targets, SubSeq(available_players, 1, waiver_index - 1))
    /\ WaiverReturned =>
           /\ waiver_index = Len(available_players) + 1
           /\ RankedStably(targets, [t \in Range(targets) |-> t.priority_score],
                           available_players)
    /\ breakout_pc = "loop" =>
           InListOrder(breakout_candidates, SubSeq(breakout_pool, 1, breakout_index - 1))
    /\ BreakoutReturned =>
           /\ breakout_index = Len(breakout_pool) + 1
           /\ RankedStably(breakout_candidates,
                           [c \in Range(breakout_candidates) |-> c.breakout_score],
                           breakout_pool)

\* h is listed first and ranked last; n and l have one priority and keep
\* their order
C20_Witness ==
    /\ WaiverReturned
    /\ available_players = <<"h", "n", "l">>
    /\ NamesOf(targets) = <<"n", "l", "h">>
    /\ targets[1].priority_score = targets[2].priority_score

-----------------------------------------------------------------------------
(* Claims about the two phases of _build_dfs_lineup *)

\* the banned players of the call
BannedNames ==
    IF IsSome(constraints.banned_players) THEN Range(Get(constraints.banned_players)) ELSE {}

\* C25: a player listed in constraints.banned_players is never in the DFS
\* lineup, neither while the two phases run nor in the lineup returned, also
\* when the player is a must-include player.
C25_BannedNeverInLineup ==
    /\ dfs_pc # "idle" => Committed \cap BannedNames = {}
    /\ DFSReturned =>
           \A pos \in DOMAIN Get(dfs_result).lineup :
               Range(Get(dfs_result).lineup[pos]) \cap BannedNames = {}

\* r1 is banned and must be included, is in the pool with a projection and
\* roster info, and its position is short of a player at the return
C25_Witness ==
    /\ DFSReturned
    /\ "r1" \in BannedNames
    /\ "r1" \in Range(MustIncludeList(constraints))
    /\ "r1" \in Range(player_pool)
    /\ RequiredCount(lineup_requirements, "RB") = 2
    /\ Len(lineup["RB"]) = 1

\* constraints.must_include as the caller gave it
MustListed ==
    IF IsSome(constraints.must_include) THEN Get(constraints.must_include) ELSE <<>>

\* the player is in the pool of the call with what the optimizer asks of an
\* analysis, and is not banned
Eligible(n) ==
    /\ n \in Range(player_pool)
    /\ ~analysis_of[n].raises
    /\ IsSome(analysis_of[n].fantasy_projection)
    /\ IsSome(analysis_of[n].roster_info)
    /\ n \notin BannedNames

PositionOf(n) == Get(analysis_of[n].position)

\* the i-th must-include entry finds a free required slot at its position
\* when its turn comes: it names an eligible player not named before, and
\* the earlier entries have taken fewer slots than the position requires
RECURSIVE WinsSlot(_)
WinsSlot(i) ==
    LET n == MustListed[i]
    IN  /\ Eligible(n)
        /\ \A j \in 1..(i - 1) : MustListed[j] # n
        /\ Cardinality({j \in 1..(i - 1) :
                            /\ Eligible(MustListed[j])
                            /\ PositionOf(MustListed[j]) = PositionOf(n)
                            /\ WinsSlot(j)})
               < RequiredCount(lineup_requirements, PositionOf(n))

\* the must-include players among the first upto entries that win a slot at
\* the position, in list order
MustSeatedAt(pos, upto) ==
    LET idx == SelectSeq([i \in 1..upto |-> i],
                         LAMBDA i : WinsSlot(i) /\ PositionOf(MustListed[i]) = pos)
    IN  [k \in 1..Len(idx) |-> MustListed[idx[k]]]

\* the positions of the must-include players the optimizer can find
MustPositions ==
    {PositionOf(MustListed[i]) : i \in {j \in 1..Len(MustListed) : Eligible(MustListed[j])}}

\* the names seated at the position, in the order of commitment
SeatedNames(pos) ==
    [i \in 1..Len(WithKey(lineup, pos)[pos]) |-> WithKey(lineup, pos)[pos][i].name]

\* C27: the must-include players are committed in list order before any fill
\* candidate, each seated exactly when its position still has a free required
\* slot at its turn (so the earlier-listed of two takes the last slot); and
\* the fill phase only appends after them, never displacing one.
C27_MustIncludesFirstInListOrder ==
    /\ dfs_pc = "must" =>
           /\ \A pos \in DOMAIN lineup :
                  SeatedNames(pos) = MustSeatedAt(pos, must_index - 1)
           /\ \A i \in 1..(must_index - 1) : WinsSlot(i) => MustListed[i] \in Committed
    /\ dfs_pc \in {"fill", "try", "done"} =>
           \A pos \in MustPositions :
               LET first == MustSeatedAt(pos, Len(MustListed))
               IN  /\ Len(first) <= Len(SeatedNames(pos))
                   /\ SubSeq(SeatedNames(pos), 1, Len(first)) = first

\* r2 and r1 compete for the only running-back slot: r2, listed first, has
\* it at the return although r1 is the first candidate of the pool
C27_Witness ==
    /\ DFSReturned
    /\ MustListed = <<"r2", "r1">>
    /\ Eligible("r1") /\ Eligible("r2")
    /\ player_pool[1] = "r1"
    /\ RequiredCount(lineup_requirements, "RB") = 1
    /\ SeatedNames("RB") = <<"r2">>
    /\ SeatedNames("QB") = <<"q1">>

\* the players seated, position by position in the order of commitment
RECURSIVE SeatedPlayers(_)
SeatedPlayers(S) ==
    IF S = {} THEN <<>>
    ELSE LET pos == CHOOSE q \in S : TRUE
         IN  lineup[pos] \o SeatedPlayers(S \ {pos})

AllSeated == SeatedPlayers(DOMAIN lineup)

\* C28: in every state of the two phases and in the lineup returned, no
\* player is seated more than once, however often the pool or the
\* must-include list names the player; every player is seated at the
\* position of the player's own analysis; and no position holds more players
\* than the requirements give it, none at all when they do not list it.
C28_LineupIsValidPartialAssignment ==
    /\ \A i, j \in 1..Len(AllSeated) : AllSeated[i].name = AllSeated[j].name => i = j
    /\ \A pos \in DOMAIN lineup :
           /\ \A i \in 1..Len(lineup[pos]) : PositionOf(lineup[pos][i].name) = pos
           /\ Len(lineup[pos]) <= RequiredCount(lineup_requirements, pos)
    /\ DFSReturned =>
           \A pos \in DOMAIN lineup :
               Get(dfs_result).lineup[pos] = SeatedNames(pos)

\* r1 is named twice in the pool and twice in the must-include list, two
\* running backs are required, and r1 holds one slot only
C28_Witness ==
    /\ DFSReturned
    /\ player_pool = <<"r1", "r2", "r1">>
    /\ MustListed = <<"r1", "r1">>
    /\ RequiredCount(lineup_requirements, "RB") = 2
    /\ SeatedNames("RB") = <<"r1", "r2">>

\* the sum of a field over the seated players
RECURSIVE SalariesOf(_)
SalariesOf(players) ==
    IF players = <<>> THEN 0 ELSE Head(players).salary + SalariesOf(Tail(players))

RECURSIVE PointsOfPlayers(_)
PointsOfPlayers(players) ==
    IF players = <<>> THEN Zero
    ELSE RAdd(Head(players).projected_points, PointsOfPlayers(Tail(players)))

SeatedOfTeam(t) == Cardinality({i \in 1..Len(AllSeated) : AllSeated[i].team = t})

\* C29: after every commit of either phase the running totals match the
\* lineup: total_salary is the sum of the seated players' salaries, the total
\* points the sum of their projected points, and team_counts holds for each
\* team exactly the number of its seated players; the dict returned carries
\* these totals and salary_remaining = salary_cap - total_salary.
C29_TotalsMatchLineup ==
    /\ total_salary = SalariesOf(AllSeated)
    /\ total_points = PointsOfPlayers(AllSeated)
    /\ \A t \in DOMAIN team_counts : team_counts[t] = SeatedOfTeam(t)
    /\ \A i \in 1..Len(AllSeated) : AllSeated[i].team \in DOMAIN team_counts
    /\ DFSReturned =>
           /\ Get(dfs_result).total_salary = SalariesOf(AllSeated)
           /\ Get(dfs_result).total_projected_points = PointsOfPlayers(AllSeated)
           /\ Get(dfs_result).salary_remaining =
                  constraints.salary_cap - SalariesOf(AllSeated)
           /\ Get(dfs_result).team_distribution = team_counts

\* q1 and r1 of team A are both seated, one by each phase, and use up the
\* salary cap
C29_Witness ==
    /\ DFSReturned
    /\ MustListed = <<"q1">>
    /\ SeatedNames("QB") = <<"q1">>
    /\ SeatedNames("RB") = <<"r1">>
    /\ Get(dfs_result).team_distribution["A"] = 2
    /\ Get(dfs_result).total_salary = 14000
    /\ Get(dfs_result).salary_remaining = 0

-----------------------------------------------------------------------------
(* SpecDFSWide: the optimizer on a slate with more running backs than the   *)
(* fill loop looks at for one slot                                          *)

\* most players of the wide slate in one pool
MaxWidePool == 5

\* three running backs at 6000 worth 5, 4 and 3 points per thousand, one at
\* 4000 worth 2, one without a listed salary worth 1, and a quarterback
WideSlate ==
    [n \in {"e1", "e2", "e3", "c1", "n1", "q1"} |->
        CASE n = "e1" -> Projected("RB", R(30, 1), R(7, 10), NoBreakdown,
                                   Some(RosterInfo("A", Some(6000))))
          [] n = "e2" -> Projected("RB", R(24, 1), R(7, 10), NoBreakdown,
                                   Some(RosterInfo("A", Some(6000))))
          [] n = "e3" -> Projected("RB", R(18, 1), R(7, 10), NoBreakdown,
                                   Some(RosterInfo("B", Some(6000))))
          [] n = "c1" -> Projected("RB", R(8, 1), R(7, 10), NoBreakdown,
                                   Some(RosterInfo("B", Some(4000))))
          [] n = "n1" -> Projected("RB", R(5, 1), R(7, 10), NoBreakdown,
                                   Some(RosterInfo("C", None)))
          [] OTHER -> Projected("QB", R(18, 1), R(7, 10), NoBreakdown,
                               Some(RosterInfo("A", Some(6000))))]

\* the pools list the players from the worst value to the best
WideOrder == <<"n1", "c1", "q1", "e3", "e2", "e1">>

WidePools ==
    {SelectSeq(WideOrder, LAMBDA n : n \in S) :
        S \in {T \in SUBSET Range(WideOrder) : Cardinality(T) <= MaxWidePool}}

WideMustIncludeLists == {None, Some(<<"e3">>), Some(<<"q1", "e1">>)}

WideCaps == {5000, 10000, 16000}

WideConstraints ==
    [salary_cap : WideCaps,
     max_players_per_team : {1, 2},
     banned_players : {None},
     must_include : WideMustIncludeLists]

WideRequirements ==
    {<<[position |-> "RB", count |-> 1]>>,
     <<[position |-> "RB", count |-> 2], [position |-> "QB", count |-> 1]>>,
     <<[position |-> "QB", count |-> 1], [position |-> "RB", count |-> 2]>>}

InitDFSWide ==
    /\ ProjectionIdle
    /\ analysis_of = WideSlate
    /\ LineupIdle
    /\ DFSIdle
    /\ ToolsIdle
    /\ SessionIdle

\* one call of optimize_dfs_lineup on the wide slate
OptimizeWideSlate ==
    /\ dfs_pc = "idle"
    /\ \E pool \in WidePools, c \in WideConstraints, reqs \in WideRequirements :
        EnterBuildDFSLineup(pool, c, reqs)

NextDFSWide ==
    \/ OptimizeWideSlate
    \/ MustIncludeSeat
    \/ MustIncludePass
    \/ FillStart
    \/ SkipOverCap
    \/ SkipTeamFull
    \/ CommitCandidate
    \/ ReturnLineup

SpecDFSWide == InitDFSWide /\ [][NextDFSWide]_vars

\* projected points per thousand of salary
PpdOf(player) == RDiv(player.projected_points, R(player.salary, 1000))

\* the leftover budget pays the player and the player's team has room
Fits(player) ==
    /\ total_salary + player.salary <= constraints.salary_cap
    /\ TeamCount(team_counts, player.team) < constraints.max_players_per_team

\* a required slot of the position at requirement item i is empty
SlotUnfilled(i) ==
    Len(WithKey(lineup, lineup_requirements[i].position)[lineup_requirements[i].position])
        < lineup_requirements[i].count

\* the candidates of the position at item i, best value first
CandidatesAt(i) ==
    IF lineup_requirements[i].position \in DOMAIN players_by_position
    THEN players_by_position[lineup_requirements[i].position]
    ELSE <<>>

\* how many of them the fill loop looks at: three for each slot the
\* must-include phase left empty
LookedAt(i) ==
    LET pos == lineup_requirements[i].position
        left == lineup_requirements[i].count - Len(MustSeatedAt(pos, Len(MustListed)))
    IN  Min(Len(CandidatesAt(i)), 3 * left)

\* the candidates are in descending order of points per salary, a player
\* without a listed salary counted at 5000
InValueOrder ==
    /\ \A pos \in DOMAIN players_by_position :
           \A k \in 1..Len(players_by_position[pos]) :
               LET player == players_by_position[pos][k]
                   listed == Get(analysis_of[player.name].roster_info).salary
               IN  /\ player.salary = IF IsSome(listed) THEN Get(listed) ELSE 5000
                   /\ \A j \in 1..(k - 1) :
                          RLe(PpdOf(player), PpdOf(players_by_position[pos][j]))
    /\ dfs_pc = "try" =>
           \E k \in 1..Len(CandidatesAt(fill_index)) :
               candidates = SubSeq(CandidatesAt(fill_index), k,
                                   k + Len(candidates) - 1)

\* C26 as claimed: the fill phase tries the candidates in descending order of
\* points per salary (5000 when none is listed) and skips one only when the
\* salary cap or the team cap would be exceeded, so that at the return no
\* position with an empty required slot has a candidate left that fits the
\* leftover budget and the team cap.
C26_NoFittingCandidateLeft ==
    /\ dfs_pc # "idle" => InValueOrder
    /\ DFSReturned =>
           \A i \in 1..Len(lineup_requirements) :
               SlotUnfilled(i) =>
                   \A k \in 1..Len(CandidatesAt(i)) :
                       CandidatesAt(i)[k].name \notin Committed => ~Fits(CandidatesAt(i)[k])

\* C26, amended: the same of the candidates the fill loop looks at, the
\* first three for each slot of the position still empty when the fill
\* phase starts.
C26_NoFittingCandidateAmongLookedAt ==
    /\ dfs_pc # "idle" => InValueOrder
    /\ DFSReturned =>
           \A i \in 1..Len(lineup_requirements) :
               SlotUnfilled(i) =>
                   \A k \in 1..LookedAt(i) :
                       CandidatesAt(i)[k].name \notin Committed => ~Fits(CandidatesAt(i)[k])

\* the quarterback takes 6000 of 10000; of the four running backs the loop
\* looks at, the three dearer ones are skipped and the fourth is seated, and
\* the second running-back slot stays empty
C26_Witness ==
    /\ DFSReturned
    /\ player_pool = <<"c1", "q1", "e3", "e2", "e1">>
    /\ constraints.salary_cap = 10000
    /\ lineup_requirements =
           <<[position |-> "QB", count |-> 1], [position |-> "RB", count |-> 2]>>
    /\ SeatedNames("QB") = <<"q1">>
    /\ SeatedNames("RB") = <<"c1">>
    /\ SlotUnfilled(2)
    /\ LookedAt(2) = 4

-----------------------------------------------------------------------------
(* SpecInvalidInput: the calls the callers' contract forbids                *)

NegativeCaps == {-1, -50000}

NegativeCapConstraints ==
    [salary_cap : NegativeCaps,
     max_players_per_team : {1, 2},
     banned_players : {None},
     must_include : WideMustIncludeLists]

\* values that are no member of the LeagueType enum
MalformedLeagueTypes == {"best_ball", "Dynasty"}

InitInvalidInput ==
    /\ ProjectionIdle
    /\ analysis_of = WideSlate
    /\ LineupIdle
    /\ DFSIdle
    /\ ToolsIdle
    /\ SessionIdle

\* one call of optimize_dfs_lineup with a negative salary cap
OptimizeNegativeCap ==
    /\ dfs_pc = "idle"
    /\ trade_pc = "idle"
    /\ \E pool \in WidePools, c \in NegativeCapConstraints, reqs \in WideRequirements :
        EnterBuildDFSLineup(pool, c, reqs)

\* one call of analyze_trade with a league type outside the enum
AnalyzeTradeMalformed ==
    /\ trade_pc = "idle"
    /\ dfs_pc = "idle"
    /\ \E give \in SeqsUpTo({"e1", "c1"}, MaxTradeSide),
          receive \in SeqsUpTo({"e1", "c1"}, MaxTradeSide),
          league \in MalformedLeagueTypes :
        /\ give_players' = give
        /\ receive_players' = receive
        /\ league_type' = league
        /\ trade_proposal' = Some(AnalyzeTradeResult(give, receive, league, analysis_of))
        /\ trade_pc' = "returned"
        /\ UNCHANGED <<reverse_proposal, projVars, analysis_of, sessionVars, lineupVars, dfsVars,
                       compareVars, waiverVars, breakoutVars>>

\* under a negative cap no candidate passes the salary test of the fill
\* loop, so the two steps behind that test are no steps of this
\* specification
NextInvalidInput ==
    \/ OptimizeNegativeCap
    \/ MustIncludeSeat
    \/ MustIncludePass
    \/ FillStart
    \/ SkipOverCap
    \/ ReturnLineup
    \/ AnalyzeTradeMalformed

SpecInvalidInput == InitInvalidInput /\ [][NextInvalidInput]_vars

\* C21: a call of the DFS optimizer with a negative salary cap, and a call of
\* the trade evaluator with a league type that is no league type, ends in an
\* error before any player is analysed: no pool is built, nobody is seated
\* and no lineup or trade proposal is returned.
C21_InvalidInputRejected ==
    /\ (dfs_pc # "idle" /\ constraints.salary_cap < 0) =>
           /\ DFSReturned
           /\ Get(dfs_result).outcome = "error"
           /\ DOMAIN players_by_position = {}
           /\ Committed = {}
    /\ (trade_pc # "idle" /\ league_type \notin LeagueTypes) =>
           ~IsSome(trade_proposal)

-----------------------------------------------------------------------------
(* SpecBatch: the five batch operations over one market in which the        *)
(* analysis of some players raises                                          *)

BatchNames == RosterNames \cup TradeNames \cup SlateNames \cup RankerNames

\* the players whose analysis raises: one of the roster, two of the trade
\* lists, one of the slate and of the rankers' lists
BatchFailing == {"c", "u", "x"}

BatchMarket ==
    [n \in BatchNames |->
        IF n \in BatchFailing THEN Raises
        ELSE IF n \in TradeNames THEN (CHOOSE m \in TradeMarkets : TRUE)[n]
        ELSE IF n \in SlateNames THEN (CHOOSE m \in Slates : TRUE)[n]
        ELSE (CHOOSE m \in RankerMarkets : TRUE)[n]]

InitBatch ==
    /\ ProjectionIdle
    /\ analysis_of = BatchMarket
    /\ LineupIdle
    /\ DFSIdle
    /\ ToolsIdle
    /\ SessionIdle

\* no batch operation is running or has returned
BatchIdle ==
    /\ lineup_pc = "idle"
    /\ dfs_pc = "idle"
    /\ trade_pc = "idle"
    /\ waiver_pc = "idle"
    /\ breakout_pc = "idle"

BatchOptimizeLineup == BatchIdle /\ OptimizeLineup

BatchOptimizeDFSLineup == BatchIdle /\ OptimizeDFSLineup

BatchAnalyzeTrade == BatchIdle /\ AnalyzeTrade

BatchGetWaiverTargets == BatchIdle /\ CallWaiverRanker

BatchGetBreakoutCandidates == BatchIdle /\ CallBreakoutRanker

NextBatch ==
    \/ BatchOptimizeLineup
    \/ BatchOptimizeDFSLineup
    \/ MustIncludeSeat
    \/ MustIncludePass
    \/ FillStart
    \/ SkipOverCap
    \/ SkipTeamFull
    \/ CommitCandidate
    \/ ReturnLineup
    \/ BatchAnalyzeTrade
    \/ BatchGetWaiverTargets
    \/ EvaluateWaiverPlayer
    \/ ReturnWaiverTargets
    \/ BatchGetBreakoutCandidates
    \/ EvaluateBreakoutPlayer
    \/ ReturnBreakoutCandidates

SpecBatch == InitBatch /\ [][NextBatch]_vars

\* the listed players whose analysis does not raise
Survivors(players) == SelectSeq(players, LAMBDA n : ~analysis_of[n].raises)

\* the names of the candidates of all positions
NamesIn(byPos) ==
    UNION {{byPos[pos][i].name : i \in 1..Len(byPos[pos])} : pos \in DOMAIN byPos}

\* C22: in each of the five batch operations a player whose analysis raises
\* is left out and nothing else changes: the others are all analysed and
\* the result is the one computed from the list without the failing players.
C22_FailingPlayerLeftOutOnly ==
    /\ lineup_pc = "returned" =>
           LET byPos == SortedByPosition(Survivors(roster_players), analysis_of)
           IN  /\ optimal_lineup = SelectStarters(byPos, roster_requirements)
               /\ bench_players = BenchPlayers(byPos, roster_requirements)
    /\ dfs_pc # "idle" =>
           NamesIn(players_by_position) \cup Committed =
               NamesIn(PoolByPosition(Survivors(player_pool), analysis_of,
                                      constraints.banned_players))
    /\ trade_pc = "returned" =>
           LET alone == AnalyzeTradeResult(Survivors(give_players),
                                           Survivors(receive_players),
                                           league_type, analysis_of)
           IN  /\ Get(trade_proposal).trade_value = alone.trade_value
               /\ Get(trade_proposal).explanation = alone.explanation
               /\ Get(trade_proposal).confidence = alone.confidence
    /\ WaiverReturned =>
           /\ waiver_index = Len(available_players) + 1
           /\ \A n \in Range(available_players) :
                  EntriesOf(targets, n) =
                      IF WaiverAccepts(analysis_of[n], roster_needs, max_ownership)
                      THEN Occurrences(available_players, n) ELSE 0
    /\ BreakoutReturned =>
           /\ breakout_index = Len(breakout_pool) + 1
           /\ \A n \in Range(breakout_pool) :
                  EntriesOf(breakout_candidates, n) =
                      IF BreakoutAccepts(analysis_of[n], min_confidence)
                      THEN Occurrences(breakout_pool, n) ELSE 0

\* x, whose analysis raises, is the first of the pool; r2 and q1, listed
\* after it, are analysed and seated
C22_Witness ==
    /\ DFSReturned
    /\ player_pool = <<"x", "r2", "q1">>
    /\ analysis_of["x"].raises
    /\ SeatedNames("RB") = <<"r2">>
    /\ SeatedNames("QB") = <<"q1">>

-----------------------------------------------------------------------------
(* FantasyEdgeAnalyzer.get_player_analysis and the fetches behind it        *)

CacheTimeout == 300

\* mutant: no cached entry is young enough
IsFresh_Never(cached_time, t) == FALSE

\* time.time() - cached_time < self._cache_timeout
IsFresh(cached_time, t) == t - cached_time < CacheTimeout

\* "if cache_key in self._cache" with an entry that is young enough
CacheHit(c, key, t) == key \in DOMAIN c /\ IsFresh(c[key].cached_time, t)

\* self._cache[cache_key] = (time.time(), data)
Cached(c, key, t, data) ==
    [k \in DOMAIN c \cup {key} |->
        IF k = key THEN [cached_time |-> t, data |-> data] ELSE c[k]]

\* what a call threads through its fetches: the cache, the clock and the
\* number of requests sent
FreshSession == [cache |-> [k \in {} |-> <<>>], now |-> 0, requests_sent |-> 0]

\* _get_nfl_games: the cached list, or one request whose answer is cached
\* when its status is 200
GetNflGames(st, api) ==
    IF CacheHit(st.cache, "nfl_games", st.now)
    THEN [data |-> st.cache["nfl_games"].data, st |-> st]
    ELSE LET sent == [st EXCEPT !.requests_sent = @ + 1]
         IN  IF api.events_status # 200 THEN [data |-> <<>>, st |-> sent]
             ELSE [data |-> api.games,
                   st |-> [sent EXCEPT !.cache = Cached(@, "nfl_games", st.now, api.games)]]

\* f"event_{event_id}"
EventKey(event_id) == "event_" \o event_id

\* _get_event_props: the cached bookmakers, or one request, repeated after
\* two seconds when the answer is 429; the answer is cached when its status
\* is 200 and its body parses
GetEventProps(event_id, st, api) ==
    IF CacheHit(st.cache, EventKey(event_id), st.now)
    THEN [data |-> st.cache[EventKey(event_id)].data, st |-> st]
    ELSE LET sent == [st EXCEPT !.requests_sent = @ + 1]
             limited == api.odds_status = 429
             answered == IF limited
                         THEN [sent EXCEPT !.now = @ + 2, !.requests_sent = @ + 1]
                         ELSE sent
             status == IF limited THEN api.retry_status ELSE api.odds_status
         IN  IF status # 200 \/ api.odds_body # "json"
             THEN [data |-> <<>>, st |-> answered]
             ELSE [data |-> api.props[event_id],
                   st |-> [answered EXCEPT
                              !.cache = Cached(@, EventKey(event_id), answered.now,
                                               api.props[event_id])]]

\* the pairs (player name, outcome description) of the feeds for which
\* player_name.lower() is part of description.lower() without being equal
NamedWithin == {<<"r1", "R1 Jr">>}

\* "player_name_lower in desc.lower()"
Mentions(description, player_name) ==
    description = player_name \/ <<player_name, description>> \in NamedWithin

\* outcome.get('point', 0)
PointOrZero(outcome) == IF IsSome(outcome.point) THEN Get(outcome.point) ELSE Zero

\* the BettingLine objects of one market: one for each description that
\* mentions the player, in order of first appearance, its line the point of
\* the last Over or Under outcome and 0 when there is none
MarketLines(market, player_name) ==
    LET mentioned == SelectSeq(market.outcomes,
                               LAMBDA o : /\ o.description # ""
                                          /\ Mentions(o.description, player_name))
        descriptions == Dedup([i \in 1..Len(mentioned) |-> mentioned[i].description])
        priced(d) == SelectSeq(mentioned,
                               LAMBDA o : o.description = d /\ o.name \in {"Over", "Under"})
    IN  [i \in 1..Len(descriptions) |->
            [player_name |-> descriptions[i],
             prop_type |-> market.key,
             line |-> IF priced(descriptions[i]) = <<>> THEN Zero
                      ELSE PointOrZero(priced(descriptions[i])[Len(priced(descriptions[i]))])]]

RECURSIVE LinesOfMarkets(_, _)
LinesOfMarkets(markets, player_name) ==
    IF markets = <<>> THEN <<>>
    ELSE MarketLines(Head(markets), player_name)
             \o LinesOfMarkets(Tail(markets), player_name)

\* _filter_player_props: bookmaker by bookmaker, market by market
RECURSIVE FilterPlayerProps(_, _)
FilterPlayerProps(bookmakers_data, player_name) ==
    IF bookmakers_data = <<>> THEN <<>>
    ELSE LinesOfMarkets(Head(bookmakers_data).markets, player_name)
             \o FilterPlayerProps(Tail(bookmakers_data), player_name)

\* mutant: the player is taken to play for the home team
DeterminePlayerTeam_HomeTeam(game, player_name) == Some(game.home_team)

\* _determine_player_team
DeterminePlayerTeam(game, player_name) == None

\* "for game in games": the props of one game after the other are fetched
\* until a game has lines of the player ("break")
RECURSIVE SearchGames(_, _, _, _)
SearchGames(games, player_name, st, api) ==
    IF games = <<>> THEN [lines |-> <<>>, game |-> None, st |-> st]
    ELSE LET got == GetEventProps(Head(games).id, st, api)
             player_lines == FilterPlayerProps(got.data, player_name)
         IN  IF player_lines # <<>>
             THEN [lines |-> player_lines, game |-> Some(Head(games)), st |-> got.st]
             ELSE SearchGames(Tail(games), player_name, got.st, api)

\* self.position_map of the players of the feeds: _load_position_map lists
\* thirty players by name
PositionMap ==
    [n \in {"q1", "r1", "r2", "z", "n", "h", "l", "w", "a", "b"} |->
        CASE n = "q1" -> "QB"
          [] n \in {"w", "a", "b"} -> "WR"
          [] OTHER -> "RB"]

\* self.position_map.get(player_name)
PositionInMap(player_name) ==
    IF player_name \in DOMAIN PositionMap THEN Some(PositionMap[player_name]) ELSE None

\* get_player_analysis: what it returns, or that it raises, and the session
\* the call leaves behind
GetPlayerAnalysis(player_name, key, st, api, s) ==
    IF ~IsSome(key) THEN [analysis |-> Raises, st |-> st]
    ELSE LET listed == GetNflGames(st, api)
             found == SearchGames(listed.data, player_name, listed.st, api)
             player_team == IF IsSome(found.game)
                            THEN DeterminePlayerTeam(Get(found.game), player_name)
                            ELSE None
             pos == PositionInMap(player_name)
         IN  [analysis |->
                 [raises |-> FALSE,
                  position |-> pos,
                  roster_info |-> IF IsSome(player_team)
                                  THEN Some(RosterInfoOwned(Get(player_team), None))
                                  ELSE None,
                  betting_lines |-> found.lines,
                  fantasy_projection |-> GenerateFantasyProjection(pos, found.lines, s)],
              st |-> found.st]

-----------------------------------------------------------------------------
(* The answers of The Odds API *)

\* an outcome of a market
Outcome(name, description, point) ==
    [name |-> name, description |-> description, point |-> point]

\* the Over and the Under outcome of one player at one line
OverUnder(description, point) ==
    <<Outcome("Over", description, Some(point)), Outcome("Under", description, Some(point))>>

Market(key, outcomes) == [key |-> key, outcomes |-> outcomes]

Bookmaker(title, markets) == [title |-> title, markets |-> markets]

Game(id, home_team, away_team) == [id |-> id, home_team |-> home_team, away_team |-> away_team]

\* two games.  The first has the quarterback q1 at two bookmakers, the
\* running back r1 and a namesake, and the receiver a; the second has the
\* running backs r2 and z, the receiver w with a touchdown market that has
\* no line, and x, who is not in the position map.  n, h, l and b are in the
\* position map and have no line anywhere.
SundayGames == <<Game("g1", "A", "B"), Game("g2", "C", "D")>>

SundayProps ==
    [e \in {"g1", "g2"} |->
        IF e = "g1"
        THEN <<Bookmaker("book1",
                   <<Market(PASS_YARDS, OverUnder("q1", R(250, 1))),
                     Market(RUSH_YARDS, OverUnder("r1", R(70, 1)) \o OverUnder("R1 Jr", R(30, 1))),
                     Market(RECEPTIONS, OverUnder("r1", R(4, 1)) \o OverUnder("a", R(5, 1)))>>),
               Bookmaker("book2",
                   <<Market(PASS_YARDS, OverUnder("q1", R(300, 1)))>>)>>
        ELSE <<Bookmaker("book1",
                   <<Market(RUSH_YARDS, OverUnder("r2", R(60, 1)) \o OverUnder("z", R(80, 1))),
                     Market(RECEPTIONS, OverUnder("z", R(2, 1)) \o OverUnder("x", R(3, 1))
                                            \o OverUnder("w", R(6, 1))),
                     Market(RECEIVING_YARDS, OverUnder("w", R(90, 1))),
                     Market(ANYTIME_TD, <<Outcome("Yes", "w", None)>>)>>)>>]

\* the API with Sunday's games: every request answered, the list of games
\* refused, the props requests rate-limited once or twice, refused, or
\* answered with a body that is no JSON
SundayApis ==
    {[games |-> SundayGames, props |-> SundayProps, events_status |-> a[1],
      odds_status |-> a[2], retry_status |-> a[3], odds_body |-> a[4]] :
        a \in {<<200, 200, 200, "json">>, <<500, 200, 200, "json">>,
               <<200, 429, 200, "json">>, <<200, 429, 429, "json">>,
               <<200, 500, 200, "json">>, <<200, 200, 200, "html">>}}

OddsApis == SundayApis \cup {NoOddsApi}

ApiKeys == {None, Some("key")}

-----------------------------------------------------------------------------
(* SpecSession: calls of get_player_analysis and set_scoring on one         *)
(* analyzer while the clock runs                                            *)

\* most calls of get_player_analysis in one behaviour
MaxCalls == 2

\* most steps of the clock, of a third of the cache timeout each
MaxTicks == 3

\* r1 has lines in the first game and z in the second; n has a position and
\* no lines
SessionNames == {"r1", "z", "n"}

InitSession ==
    /\ ProjectionIdle
    /\ NoAnalyses
    /\ LineupIdle
    /\ DFSIdle
    /\ ToolsIdle
    /\ api_key \in ApiKeys
    /\ odds_api \in OddsApis
    /\ cache = FreshSession.cache
    /\ now = FreshSession.now
    /\ requests_sent = FreshSession.requests_sent
    /\ returned = <<>>

\* one call of get_player_analysis; what it returned is kept with the
\* scoring rule, the cache and the time of the call
CallGetPlayerAnalysis ==
    /\ Len(returned) < MaxCalls
    /\ \E player_name \in SessionNames :
        LET st == [cache |-> cache, now |-> now, requests_sent |-> requests_sent]
            call == GetPlayerAnalysis(player_name, api_key, st, odds_api, scoring)
        IN  /\ cache' = call.st.cache
            /\ now' = call.st.now
            /\ requests_sent' = call.st.requests_sent
            /\ returned' = Append(returned,
                                  [player_name |-> player_name,
                                   scoring |-> scoring,
                                   analysis |-> call.analysis,
                                   requests |-> call.st.requests_sent - requests_sent,
                                   cache_before |-> cache,
                                   called_at |-> now])
    /\ UNCHANGED <<api_key, odds_api, projVars, analysis_of, lineupVars, dfsVars, toolVars>>

\* time passes between two calls
AdvanceClock ==
    /\ now < MaxTicks * (CacheTimeout \div 3)
    /\ now' = now + CacheTimeout \div 3
    /\ UNCHANGED <<api_key, odds_api, cache, requests_sent, returned,
                   projVars, analysis_of, lineupVars, dfsVars, toolVars>>

NextSession == CallGetPlayerAnalysis \/ SetScoring \/ AdvanceClock

SpecSession == InitSession /\ [][NextSession]_vars

\* the games the loop of the call visits, when all it needs is in the cache:
\* those up to the first whose cached props have lines of the player
RECURSIVE VisitedGames(_, _, _)
VisitedGames(games, c, player_name) ==
    IF games = <<>> THEN <<>>
    ELSE IF /\ EventKey(Head(games).id) \in DOMAIN c
            /\ FilterPlayerProps(c[EventKey(Head(games).id)].data, player_name) # <<>>
         THEN <<Head(games)>>
         ELSE <<Head(games)>> \o VisitedGames(Tail(games), c, player_name)

\* at the call the list of games and the props of every game the call visits
\* were in the cache and younger than the timeout
ServedFromCache(e) ==
    LET c == e.cache_before
    IN  /\ "nfl_games" \in DOMAIN c
        /\ e.called_at - c["nfl_games"].cached_time < 300
        /\ \A g \in Range(VisitedGames(c["nfl_games"].data, c, e.player_name)) :
               /\ EventKey(g.id) \in DOMAIN c
               /\ e.called_at - c[EventKey(g.id)].cached_time < 300

\* the projection of the lines returned under a scoring rule
ProjectionUnder(e, rule) ==
    GenerateFantasyProjection(PositionInMap(e.player_name), e.analysis.betting_lines, rule)

\* C24: a call of get_player_analysis for a player whose games and event
\* props are in the cache and younger than the timeout sends no request and
\* returns the projection of the cached lines under the scoring rule in force
\* at the call, the one set_scoring installed last; and what a call returned
\* stays the projection under the rule of its own time when the rule is
\* changed afterwards.
C24_CachedLinesNewRule ==
    \A j \in 1..Len(returned) :
        LET e == returned[j]
        IN  ~e.analysis.raises =>
                /\ e.analysis.fantasy_projection = ProjectionUnder(e, e.scoring)
                /\ ServedFromCache(e) =>
                       /\ e.requests = 0
                       /\ \A i \in 1..(j - 1) :
                              (/\ returned[i].player_name = e.player_name
                               /\ ~returned[i].analysis.raises
                               /\ returned[i].requests > 0
                               /\ returned[i].analysis.betting_lines # <<>>)
                                  => e.analysis.betting_lines = returned[i].analysis.betting_lines

\* r1 is analysed under full PPR, half PPR is installed, 200 seconds pass and
\* r1 is analysed again: no request is sent, the second projection counts
\* the four receptions at half a point each, and the first is as it was
C24_Witness ==
    /\ Len(returned) = 2
    /\ returned[1].player_name = "r1" /\ returned[2].player_name = "r1"
    /\ returned[1].scoring = FantasyScoring /\ returned[2].scoring = HalfPPRScoring
    /\ scoring = HalfPPRScoring
    /\ returned[1].requests = 2
    /\ returned[2].requests = 0
    /\ returned[2].called_at = 200
    /\ Get(returned[1].analysis.fantasy_projection).projected_points = R(9, 1)
    /\ Get(returned[2].analysis.fantasy_projection).projected_points = R(7, 1)

-----------------------------------------------------------------------------
(* SpecShipped: compare_players, the DFS optimizer and the waiver ranker on *)
(* the analyses get_player_analysis itself returns                          *)

\* longest pool and longest list of available players
MaxShippedPool == 2

ShippedNames == SlateNames \cup CompareNames \cup {"z", "w"}

\* what get_player_analysis answers for each player.  The feed does not
\* change and a request the API refuses is refused again, so the answer is
\* the same whatever the cache holds
ShippedAnalyses(key, api) ==
    [n \in ShippedNames |-> GetPlayerAnalysis(n, key, FreshSession, api, FantasyScoring).analysis]

InitShipped ==
    /\ ProjectionIdle
    /\ LineupIdle
    /\ DFSIdle
    /\ ToolsIdle
    /\ api_key \in ApiKeys
    /\ odds_api \in OddsApis
    /\ cache = FreshSession.cache
    /\ now = FreshSession.now
    /\ requests_sent = FreshSession.requests_sent
    /\ returned = <<>>
    /\ analysis_of = ShippedAnalyses(api_key, odds_api)

\* none of the three operations is running or has returned
ShippedIdle ==
    /\ compare_pc = "idle"
    /\ dfs_pc = "idle"
    /\ waiver_pc = "idle"

ShippedComparePlayers == ShippedIdle /\ ComparePlayers

ShippedConstraints ==
    [salary_cap : {14000},
     max_players_per_team : {2},
     banned_players : {None},
     must_include : {None, Some(<<"q1", "r1">>)}]

ShippedOptimizeDFSLineup ==
    /\ ShippedIdle
    /\ \E pool \in SeqsUpTo(SlateNames, MaxShippedPool), c \in ShippedConstraints,
          reqs \in DFSRequirements :
        EnterBuildDFSLineup(pool, c, reqs)

ShippedGetWaiverTargets ==
    /\ ShippedIdle
    /\ \E players \in SeqsUpTo({"z", "w", "x"}, MaxShippedPool),
          needs \in RosterNeeds, ceiling \in OwnershipCeilings :
        GetWaiverTargets(players, needs, ceiling)
    /\ UNCHANGED <<projVars, analysis_of, sessionVars, lineupVars, dfsVars, compareVars,
                   tradeVars, breakoutVars>>

\* no analysis has roster info, so the pool of the optimizer is empty: no
\* must-include player is found and no candidate is tried, and the steps
\* that seat or skip one are no steps of this specification
NextShipped ==
    \/ ShippedComparePlayers
    \/ ShippedOptimizeDFSLineup
    \/ MustIncludePass
    \/ FillStart
    \/ ReturnLineup
    \/ ShippedGetWaiverTargets
    \/ EvaluateWaiverPlayer
    \/ ReturnWaiverTargets

SpecShipped == InitShipped /\ [][NextShipped]_vars

\* an outcome of some market of the API's games mentions the player
QuotedIn(api, n) ==
    \E e \in DOMAIN api.props :
        \E b \in 1..Len(api.props[e]) :
            \E m \in 1..Len(api.props[e][b].markets) :
                \E o \in 1..Len(api.props[e][b].markets[m].outcomes) :
                    Mentions(api.props[e][b].markets[m].outcomes[o].description, n)

\* C23: with an API key, no analysis raises for want of data: a player no
\* market quotes, a player whose lines the API does not deliver and a player
\* the position map does not know are analysed with an absent projection;
\* and compare_players returns an error report, neither raising nor
\* recommending, when the projection of either player is absent.
C23_AbsentDataAbsentProjection ==
    /\ IsSome(api_key) =>
           \A n \in DOMAIN analysis_of :
               /\ ~analysis_of[n].raises
               /\ ~QuotedIn(odds_api, n) => analysis_of[n].betting_lines = <<>>
               /\ n \notin DOMAIN PositionMap => ~IsSome(analysis_of[n].position)
               /\ (analysis_of[n].betting_lines = <<>> \/ ~IsSome(analysis_of[n].position))
                      => ~IsSome(analysis_of[n].fantasy_projection)
    /\ (/\ compare_pc = "returned"
        /\ IsSome(api_key)
        /\ \/ ~IsSome(analysis_of[player1_name].fantasy_projection)
           \/ ~IsSome(analysis_of[player2_name].fantasy_projection))
           => Get(comparison).outcome = "error"

\* a, with five receptions quoted, is compared with b, whom no market
\* quotes; x has a line and no position
C23_Witness ==
    /\ compare_pc = "returned"
    /\ player1_name = "a" /\ player2_name = "b"
    /\ IsSome(analysis_of["a"].fantasy_projection)
    /\ analysis_of["b"].betting_lines = <<>>
    /\ analysis_of["x"].betting_lines # <<>>
    /\ ~IsSome(analysis_of["x"].fantasy_projection)
    /\ Get(comparison).outcome = "error"

\* C30: _determine_player_team resolves no team, so no analysis of
\* get_player_analysis has roster info; the DFS optimizer then builds an
\* empty pool and returns a lineup without a player, and the waiver ranker
\* returns no target, whatever the pool, the constraints and the needs.
C30_NoRosterInfoNoSelection ==
    /\ \A n \in DOMAIN analysis_of : ~IsSome(analysis_of[n].roster_info)
    /\ dfs_pc # "idle" =>
           /\ NamesIn(players_by_position) = {}
           /\ Committed = {}
    /\ DFSReturned =>
           /\ \A pos \in DOMAIN Get(dfs_result).lineup : Get(dfs_result).lineup[pos] = <<>>
           /\ Get(dfs_result).total_salary = 0
    /\ waiver_pc # "idle" => targets = <<>>

\* q1 and r1 are quoted and projected, are the pool and the must-include
\* list, and the lineup returned has an empty list for each position
C30_Witness ==
    /\ DFSReturned
    /\ player_pool = <<"q1", "r1">>
    /\ MustListed = <<"q1", "r1">>
    /\ IsSome(analysis_of["q1"].fantasy_projection)
    /\ IsSome(analysis_of["r1"].fantasy_projection)
    /\ DOMAIN Get(dfs_result).lineup = {"QB", "RB"}
    /\ Committed = {}

====
